---- MODULE Spec2Model ----
(***************************************************************************)
(* A model of the Terraform Cloud MCP adapter: the HTTP transport of       *)
(* api/client.py (api_request, make_api_request) and the response          *)
(* filtering engine of utils/filters.py with its policy tables of          *)
(* configs/filter_configs.py.                                              *)
(*                                                                         *)
(* Python strings whose characters matter (bearer tokens, exception texts) *)
(* are sequences of one-character strings.  Python dictionaries and lists  *)
(* live in a heap of cells, so that a shallow copy shares its children     *)
(* with the original and an in-place update is visible through every       *)
(* reference.                                                              *)
(***************************************************************************)
EXTENDS Integers, Sequences, FiniteSets, TLC

VARIABLES
    pc,             \* position of the transport call: "call", "awaiting", "done"
    fn,             \* which transport function was invoked
    explicitToken,  \* the token argument
    defaultToken,   \* DEFAULT_TOKEN, read from the environment at import
    method,         \* the method argument
    excText,        \* the text of the exception the HTTP client raises, if it does
    calls,          \* the HTTP calls issued so far, in order
    response,       \* the HTTP response received for the last call
    result,         \* what the function returned (or raised)
    path,           \* the path argument
    enableRawResponse, \* ENABLE_RAW_RESPONSE in the environment of the process
    returned,       \* the decoded JSON object, when that is what was returned
    fpc,            \* position of the filtering caller: "ready", "filtered", "refiltered"
    heap,           \* the dicts and lists of the process
    env,            \* the envelope passed to filter_response
    rtArg,          \* the resource_type argument
    opArg,          \* the operation_type argument
    out,            \* what filter_response returned (or raised) for env
    out2,           \* what it returned when given its own result again
    dpc,            \* position of the detecting caller: "ready", "detected"
    detected,       \* what the detection functions returned for path, method and env
    tool,           \* the tool function that was called
    targs,          \* its arguments
    tpc,            \* position of the tool: "start", "details", "done"
    kwargs,         \* the keyword arguments of its latest call of api_request
    tret,           \* what the tool returned (or raised)
    qpc,            \* position of the caller of query_params: "ready", "done"
    qmodel,         \* the request object given to query_params
    qparams,        \* the parameters query_params returned
    ppc,            \* position of the payload builder: "ready", "built"
    preq,           \* the request object given to create_api_payload
    payload,        \* the payload
    added,          \* the add_relationship calls made on the payload, in order
    data,           \* the data argument of the transport call
    spc,            \* position of server.py: "import", "register", "serving"
    deleteToolsEnv, \* ENABLE_DELETE_TOOLS in the environment of the process
    enable_delete_tools, \* the module variable of server.py
    registered,     \* the tools registered so far, in order, each with its enabled flag
    tables,         \* the policy tables of the process, when calls interleave
    tasks,          \* the concurrent filter and detection calls
    lpc,            \* position of list_workspaces: "request", "awaiting", "returned"
    current_page,   \* its loop variable
    requests,       \* the page numbers it requested, in order
    all_workspaces, \* the data it has collected
    listed,         \* what it returned
    server          \* what the page responses have reported so far

apiVars ==
    <<pc, fn, explicitToken, defaultToken, method, excText, calls, response, result,
      path, enableRawResponse, returned>>

filterVars == <<fpc, heap, env, rtArg, opArg, out, out2>>

detectVars == <<dpc, detected>>

toolVars == <<tool, targs, tpc, kwargs, tret>>

codecVars == <<qpc, qmodel, qparams>>

payloadVars == <<ppc, preq, payload, added>>

requestVars == <<data>>

serverVars == <<spc, deleteToolsEnv, enable_delete_tools, registered>>

tableVars == <<tables, tasks>>

pagerVars == <<lpc, current_page, requests, all_workspaces, listed, server>>

laterVars == <<requestVars, serverVars, tableVars, pagerVars>>

vars == <<apiVars, filterVars, detectVars, toolVars, codecVars, payloadVars, laterVars>>

\* what a step of the transport, the filter, the detection, a tool, the
\* parameter codec and the payload builder leave alone
outsideApi ==
    <<filterVars, detectVars, toolVars, codecVars, payloadVars, laterVars>>
outsideFilter ==
    <<apiVars, detectVars, toolVars, codecVars, payloadVars, laterVars>>
outsideDetect ==
    <<apiVars, filterVars, toolVars, codecVars, payloadVars, laterVars>>
outsideTool ==
    <<filterVars, detectVars, codecVars, payloadVars, laterVars>>
outsideCodec ==
    <<apiVars, filterVars, detectVars, toolVars, payloadVars, laterVars>>
outsidePayload ==
    <<apiVars, filterVars, detectVars, toolVars, codecVars, laterVars>>

(***************************************************************************)
(* Bounds of the model.                                                    *)
(***************************************************************************)
MaxTokLen == 2
MaxMsgLen == 3

(***************************************************************************)
(* Character strings.                                                      *)
(***************************************************************************)
Chars == {"a", "D", "[", " "}

RECURSIVE StringsUpTo(_)
StringsUpTo(n) ==
    IF n = 0 THEN {<<>>}
    ELSE LET shorter == StringsUpTo(n - 1)
         IN  shorter \cup {Append(s, c) : s \in {t \in shorter : Len(t) = n - 1}, c \in Chars}

\* s[i..] starts with t
StartsWithAt(s, i, t) ==
    /\ i + Len(t) - 1 <= Len(s)
    /\ \A k \in 1..Len(t) : s[i + k - 1] = t[k]

\* Python's `t in s` for strings
Contains(s, t) == \E i \in 1..(Len(s) + 1) : StartsWithAt(s, i, t)

\* Python's str.replace(old, new) for a non-empty old: the leftmost occurrence
\* is replaced and the scan resumes after it.
RECURSIVE ReplaceFrom(_, _, _, _)
ReplaceFrom(s, i, old, new) ==
    IF i > Len(s) THEN <<>>
    ELSE IF StartsWithAt(s, i, old)
         THEN new \o ReplaceFrom(s, i + Len(old), old, new)
         ELSE <<s[i]>> \o ReplaceFrom(s, i + 1, old, new)

Replace(s, old, new) == ReplaceFrom(s, 1, old, new)

\* str.replace(old, new, 1): only the first occurrence
RECURSIVE ReplaceFirstFrom(_, _, _, _)
ReplaceFirstFrom(s, i, old, new) ==
    IF i > Len(s) THEN <<>>
    ELSE IF StartsWithAt(s, i, old)
         THEN new \o SubSeq(s, i + Len(old), Len(s))
         ELSE <<s[i]>> \o ReplaceFirstFrom(s, i + 1, old, new)

REDACTED == <<"[", "R", "E", "D", "A", "C", "T", "E", "D", "]">>

RequestErrorPrefix ==
    <<"R", "e", "q", "u", "e", "s", "t", " ", "e", "r", "r", "o", "r", ":", " ">>

(***************************************************************************)
(* Optional[str]: None, or a string.                                       *)
(***************************************************************************)
NoneStr == [isNone |-> TRUE, s |-> <<>>]
Str(s) == [isNone |-> FALSE, s |-> s]

\* `if token is None`
FalsyNoneOnly(t) == t.isNone

\* `not token`
Falsy(t) == t.isNone \/ Len(t.s) = 0

\* client.py: `if not token: token = DEFAULT_TOKEN`
EffectiveToken(explicit, default) == IF Falsy(explicit) THEN default ELSE explicit

(***************************************************************************)
(* The values the transport functions return.                              *)
(***************************************************************************)
NoError == [fmt |-> "", status |-> 0, text |-> <<>>]

TokenRequired ==
    [fmt |-> "Token is required. Please set the TFC_TOKEN environment variable.",
     status |-> 0, text |-> <<>>]

UnsupportedMethod == [fmt |-> "Unsupported method: {method}", status |-> 0, text |-> <<>>]

ApiRequestFailed(status) ==
    [fmt |-> "API request failed: {status_code}", status |-> status, text |-> <<>>]

RequestError(text) == [fmt |-> "{text}", status |-> 0, text |-> RequestErrorPrefix \o text]

NoResult == [ret |-> "none", success |-> FALSE, keys |-> {}, error |-> NoError, value |-> "none"]

\* a returned mapping; `success` is the first element of make_api_request's pair
Mapping(success, keys, error, value) ==
    [ret |-> "mapping", success |-> success, keys |-> keys, error |-> error, value |-> value]

ErrorMapping(error) == Mapping(FALSE, {"error"}, error, "error")

Raised(text) ==
    [ret |-> "raised", success |-> FALSE, keys |-> {}, error |-> RequestError(text), value |-> "none"]

NoResponse == [status |-> 0, location |-> FALSE, body |-> "none"]

(***************************************************************************)
(* Python values.  A dict or a list is a reference to a heap cell; copy()  *)
(* makes a new cell whose entries are the same values, so the children of  *)
(* a copy are the children of the original.                                *)
(***************************************************************************)
VStr(s) == [t |-> "str", a |-> 0, s |-> s]
VNone == [t |-> "none", a |-> 0, s |-> ""]
VRef(a) == [t |-> "ref", a |-> a, s |-> ""]

\* a parameter that is a resource type or an operation type: an enum member,
\* a plain string, or a value of another type
EnumArg(v) == [kind |-> "enum", v |-> v]
StrArg(v) == [kind |-> "str", v |-> v]
OtherArg == [kind |-> "other", v |-> ""]

(***************************************************************************)
(* api/client.py                                                           *)
(***************************************************************************)
Functions == {"api_request", "make_api_request"}

SupportedMethods == {"GET", "POST", "PATCH", "DELETE"}

Methods == SupportedMethods \cup {"PUT"}

RedirectStatuses == {301, 302, 307, 308}

Statuses == {200, 201, 204, 206} \cup RedirectStatuses \cup {404, 500}

\* what response.json() finds in the body
Bodies == {"json_object", "json_array", "not_json"}

\* the text of the ValueError response.json() raises on an undecodable body
JsonErrorText == <<"a">>

\* client.py api_request 171-173, make_api_request 63-74: which calls carry json=
SendsJsonBody(f, m) == m \in {"POST", "PATCH"}

Headers(token) == [scheme |-> "Bearer", token |-> token.s]

HttpCall(f, m, token) ==
    [method |-> m, url |-> "api", auth |-> Headers(token), json |-> SendsJsonBody(f, m)]

\* the except clauses of the transport: which exception kinds they catch
CatchesOnlyTransportErrors(kind) == kind = "transport"

CaughtByExcept(kind) == kind \in {"transport", "value_error"}

\* `error_message.replace(token, "[REDACTED]", 1)`
RedactFirst(text, token) ==
    IF ~Falsy(token) /\ Contains(text, token.s)
    THEN ReplaceFirstFrom(text, 1, token.s, REDACTED)
    ELSE text

\* `if token and token in error_message: error_message = error_message.replace(...)`
Redact(text, token) ==
    IF ~Falsy(token) /\ Contains(text, token.s)
    THEN Replace(text, token.s, REDACTED)
    ELSE text

\* an exception raised inside the try block of either function
HandleException(kind, text, token) ==
    IF CaughtByExcept(kind)
    THEN ErrorMapping(RequestError(Redact(text, token)))
    ELSE Raised(text)

\* api_request's handling of a response (client.py 178-197)
ApiRequestResponse(status, body, token) ==
    IF 200 <= status /\ status < 300
    THEN IF status = 204
         THEN Mapping(TRUE, {"status"}, NoError, "no_content")
         ELSE IF body = "not_json"
              THEN HandleException("value_error", JsonErrorText, token)
              ELSE IF body = "json_object"
                   THEN Mapping(TRUE, {"<body>"}, NoError, "body")
                   ELSE Mapping(TRUE, {"data"}, NoError, "wrapped_body")
    ELSE IF body = "not_json"
         THEN ErrorMapping(ApiRequestFailed(status))
         ELSE Mapping(FALSE, {"error", "details"}, ApiRequestFailed(status), "error")

\* make_api_request's handling of a response (client.py 78-92)
MakeApiRequestResponse(status, body, token) ==
    IF status \in {200, 201, 202, 204}
    THEN IF status = 204
         THEN Mapping(TRUE, {"status"}, NoError, "no_content")
         ELSE IF body = "not_json"
              THEN Mapping(TRUE, {"status", "raw_response"}, NoError, "raw_text")
              ELSE Mapping(TRUE, {"<body>"}, NoError, "body")
    ELSE IF body = "not_json"
         THEN ErrorMapping(ApiRequestFailed(status))
         ELSE Mapping(FALSE, {"error", "details"}, ApiRequestFailed(status), "error")

\* client.py 184-186: `result = response.json()` is a dict and is returned
ReturnsDecodedObject(status, body) ==
    200 <= status /\ status < 300 /\ status # 204 /\ body = "json_object"

HandleResponse(f, status, body, token) ==
    IF f = "api_request"
    THEN ApiRequestResponse(status, body, token)
    ELSE MakeApiRequestResponse(status, body, token)

\* a transport that treats a redirect as one more request to issue
FollowEveryRedirect(status, location) ==
    IF status \in RedirectStatuses /\ location THEN "call" ELSE "done"

\* where control goes once a response has been handled: every branch of
\* client.py 178-197 (and 78-92) returns
AfterResponse(status, location) == "done"

NoToolResult == [ret |-> "none", exc |-> "", value |-> NoResult]

\* no page response yet
NoPages == [faithful |-> TRUE, total |-> 0]

\* api_request(path, method, token, params, data): data defaults to {}
NoData == [kind |-> "dict", content |-> "empty"]

\* no server start, no interleaved call and no pagination loop is in progress
ServerIdle ==
    /\ spc = "idle"
    /\ deleteToolsEnv = NoneStr
    /\ enable_delete_tools = FALSE
    /\ registered = <<>>
    /\ tables = <<>>
    /\ tasks = <<>>
    /\ lpc = "idle"
    /\ current_page = 0
    /\ requests = <<>>
    /\ all_workspaces = <<>>
    /\ listed = NoResult
    /\ server = NoPages

\* no tool, no codec and no payload builder is in use
CallersIdle ==
    /\ tool = ""
    /\ targs = [valid |-> TRUE, json_format |-> FALSE]
    /\ tpc = "idle"
    /\ kwargs = {}
    /\ tret = NoToolResult
    /\ qpc = "idle"
    /\ qmodel = <<>>
    /\ qparams = <<>>
    /\ ppc = "idle"
    /\ preq = <<>>
    /\ payload = VNone
    /\ added = <<>>

NotDetected ==
    [resource |-> [exc |-> "none", v |-> ""], operation |-> "", filter |-> FALSE]

\* no filtering and no detection is in progress
FilterIdle ==
    /\ fpc = "idle"
    /\ heap = <<>>
    /\ env = VNone
    /\ rtArg = OtherArg
    /\ opArg = OtherArg
    /\ out = [exc |-> "none", ret |-> VNone]
    /\ out2 = [exc |-> "none", ret |-> VNone]
    /\ dpc = "idle"
    /\ detected = NotDetected

\* The call up to the point where the HTTP request is issued:
\* client.py 132-176 (api_request), 43-76 (make_api_request).
Invoke ==
    /\ pc = "call"
    /\ LET token == EffectiveToken(explicitToken, defaultToken)
       IN  IF Falsy(token)
           THEN /\ result' = ErrorMapping(TokenRequired)
                /\ pc' = "done"
                /\ calls' = calls
           ELSE IF method \notin SupportedMethods
                THEN /\ result' = ErrorMapping(UnsupportedMethod)
                     /\ pc' = "done"
                     /\ calls' = calls
                ELSE /\ calls' = Append(calls, HttpCall(fn, method, token))
                     /\ pc' = "awaiting"
                     /\ result' = result
    /\ UNCHANGED <<fn, explicitToken, defaultToken, method, excText, response>>
    /\ UNCHANGED <<path, enableRawResponse, returned>>
    /\ UNCHANGED outsideApi

\* The server answers: client.py 178-197, 78-92.
Respond ==
    /\ pc = "awaiting"
    /\ \E status \in Statuses, location \in BOOLEAN, body \in Bodies :
        /\ response' = [status |-> status, location |-> location, body |-> body]
        /\ result' = HandleResponse(fn, status, body,
                                    EffectiveToken(explicitToken, defaultToken))
        /\ pc' = AfterResponse(status, location)
        /\ returned' = IF fn = "api_request" /\ ReturnsDecodedObject(status, body)
                       THEN env ELSE VNone
    /\ UNCHANGED <<fn, explicitToken, defaultToken, method, excText, calls>>
    /\ UNCHANGED <<path, enableRawResponse>>
    /\ UNCHANGED outsideApi

\* The HTTP client raises (connect error, timeout, ...): client.py 198-203, 93-98.
TransportRaises ==
    /\ pc = "awaiting"
    /\ result' = HandleException("transport", excText,
                                 EffectiveToken(explicitToken, defaultToken))
    /\ pc' = "done"
    /\ UNCHANGED <<fn, explicitToken, defaultToken, method, excText, calls, response>>
    /\ UNCHANGED <<path, enableRawResponse, returned>>
    /\ UNCHANGED outsideApi

\* the data arguments the tools pass: nothing, the relationship list of an
\* unassign or assign call, a JSON:API resource payload, a request model
DataArgs ==
    {NoData,
     [kind |-> "dict", content |-> "relationships"],
     [kind |-> "dict", content |-> "resource"],
     [kind |-> "model", content |-> "resource"]}

\* client.py 140-143: a request model is dumped to a dict
RequestData(f, d) ==
    IF f = "api_request" /\ d.kind = "model" THEN [kind |-> "dict", content |-> d.content]
    ELSE d

\* client.py 170-176, 63-74: the json= argument of the HTTP call, "" when the
\* call is made without one
JsonArgument(f, m, d) ==
    IF ~SendsJsonBody(f, m) THEN ""
    ELSE IF f = "api_request" /\ RequestData(f, d).kind # "dict" THEN "empty"
    ELSE RequestData(f, d).content

\* the token values a caller passes or the environment holds
ApiTokens == {NoneStr, Str(<<>>), Str(<<"a">>), Str(<<"a", "D">>)}

InitApi ==
    /\ pc = "call"
    /\ fn \in Functions
    /\ explicitToken \in ApiTokens
    /\ defaultToken \in ApiTokens
    /\ method \in Methods
    /\ excText \in {<<"D">>, <<"a", " ", "a">>}
    /\ calls = <<>>
    /\ response = NoResponse
    /\ result = NoResult
    /\ path = <<>>
    /\ enableRawResponse = NoneStr
    /\ returned = VNone
    /\ FilterIdle
    /\ CallersIdle
    /\ data \in DataArgs
    /\ ServerIdle

NextApi == Invoke \/ Respond \/ TransportRaises

SpecApi == InitApi /\ [][NextApi]_vars

\* The exception path with every token and every exception text up to the bounds.
InitRedact ==
    /\ pc = "call"
    /\ fn \in Functions
    /\ explicitToken \in {Str(s) : s \in StringsUpTo(MaxTokLen) \ {<<>>}}
    /\ defaultToken = NoneStr
    /\ method = "GET"
    /\ excText \in StringsUpTo(MaxMsgLen)
    /\ calls = <<>>
    /\ response = NoResponse
    /\ result = NoResult
    /\ path = <<>>
    /\ enableRawResponse = NoneStr
    /\ returned = VNone
    /\ FilterIdle
    /\ CallersIdle
    /\ data = NoData
    /\ ServerIdle

NextRedact == Invoke \/ TransportRaises

SpecRedact == InitRedact /\ [][NextRedact]_vars

(***************************************************************************)
(* models/filters.py, configs/filter_configs.py                            *)
(***************************************************************************)
\* ResourceType: the members, by value
ResourceTypes ==
    {"workspace", "run", "organization", "project", "variable", "plan", "apply",
     "state-version", "cost-estimate", "assessment", "account", "generic"}

\* OperationType: the members, by value
OperationTypes == {"read", "list", "manage"}

\* Optional[Set[str]]
NoneSet == [isNone |-> TRUE, s |-> {}]
SomeSet(S) == [isNone |-> FALSE, s |-> S]

\* FilterConfig(...): unset fields take the defaults of models/filters.py 82-96
FilterConfig(always, read, list, essential) ==
    [always_remove |-> always, read_remove |-> read, list_remove |-> list,
     essential_relationships |-> essential]

DefaultFilterConfig == FilterConfig({}, {}, {}, NoneSet)

\* every policy is the example of the FilterConfig docstring (models/filters.py
\* 72-76), which removes permissions and, from a list, the timestamps
TimestampTrimmingConfigs ==
    [t \in ResourceTypes \ {"generic"} |->
        FilterConfig({"permissions", "actions"}, {},
                     {"created-at", "updated-at"},
                     SomeSet({"organization", "project"}))]

\* configs/filter_configs.py 7-136
FILTER_CONFIGS ==
    [t \in ResourceTypes \ {"generic"} |->
        CASE t = "workspace" ->
               FilterConfig({"apply-duration-average", "plan-duration-average",
                             "policy-check-failures", "run-failures"},
                            {},
                            {"workspace-kpis-runs-count",
                             "unarchived-workspace-change-requests-count"},
                            SomeSet({"organization", "project", "current-run",
                                     "current-state-version",
                                     "current-configuration-version"}))
          [] t = "run" ->
               FilterConfig({}, {}, {},
                            SomeSet({"workspace", "plan", "apply", "cost-estimate"}))
          [] t = "organization" ->
               FilterConfig({"fair-run-queuing-enabled",
                             "send-passing-statuses-for-untriggered-speculative-plans"},
                            {}, {}, NoneSet)
          [] t = "project" -> FilterConfig({}, {}, {}, SomeSet({"organization"}))
          [] t = "variable" -> FilterConfig({}, {}, {}, NoneSet)
          [] t = "plan" ->
               FilterConfig({}, {"resource-drift"}, {"execution-details"},
                            SomeSet({"run", "state-versions"}))
          [] t = "apply" ->
               FilterConfig({}, {}, {"execution-details"},
                            SomeSet({"run", "state-versions"}))
          [] t = "state-version" ->
               FilterConfig({"vcs-commit-sha", "vcs-commit-url"},
                            {},
                            {"hosted-state-download-url",
                             "hosted-json-state-download-url",
                             "hosted-state-upload-url"},
                            SomeSet({"workspace", "run", "outputs"}))
          [] t = "cost-estimate" ->
               FilterConfig({}, {}, {"resources-count"}, SomeSet({"run"}))
          [] t = "assessment" -> FilterConfig({}, {}, {}, SomeSet({"workspace"}))
          [] t = "account" -> FilterConfig({"password", "avatar-url"}, {}, {}, NoneSet)]

RESOURCE_TYPE_MAP ==
    [k \in {"workspace", "workspaces", "run", "runs", "organization", "organizations",
            "project", "projects", "var", "vars", "plan", "plans", "apply", "applies",
            "state-version", "state-versions", "cost-estimate", "cost-estimates",
            "assessment-result", "assessment-results", "user", "users"} |->
        CASE k \in {"workspace", "workspaces"} -> "workspace"
          [] k \in {"run", "runs"} -> "run"
          [] k \in {"organization", "organizations"} -> "organization"
          [] k \in {"project", "projects"} -> "project"
          [] k \in {"var", "vars"} -> "variable"
          [] k \in {"plan", "plans"} -> "plan"
          [] k \in {"apply", "applies"} -> "apply"
          [] k \in {"state-version", "state-versions"} -> "state-version"
          [] k \in {"cost-estimate", "cost-estimates"} -> "cost-estimate"
          [] k \in {"assessment-result", "assessment-results"} -> "assessment"
          [] k \in {"user", "users"} -> "account"]

\* FILTER_CONFIGS.get(resource_type, FilterConfig())
ConfigOf(t) == IF t \in DOMAIN FILTER_CONFIGS THEN FILTER_CONFIGS[t] ELSE DefaultFilterConfig

(***************************************************************************)
(* Heap cells.                                                             *)
(***************************************************************************)
EmptyMap == [k \in {} |-> VNone]

DictCell(d) == [kind |-> "dict", d |-> d, l |-> <<>>]
ListCell(l) == [kind |-> "list", d |-> EmptyMap, l |-> l]

IsDict(h, v) == v.t = "ref" /\ h[v.a].kind = "dict"
IsList(h, v) == v.t = "ref" /\ h[v.a].kind = "list"

Keys(h, a) == DOMAIN h[a].d
Get(h, a, k) == h[a].d[k]

\* x.copy(): the address of the copy is Len(h) + 1
Copy(h, a) == Append(h, h[a])

\* d[k] = v
SetItem(h, a, k, v) ==
    [h EXCEPT ![a].d = [x \in (DOMAIN @) \cup {k} |-> IF x = k THEN v ELSE @[x]]]

\* for k in ks: d.pop(k, None)
PopAll(h, a, ks) == [h EXCEPT ![a].d = [x \in (DOMAIN @) \ ks |-> @[x]]]

\* isinstance(x, str): ResourceType and OperationType derive from str
\* (models/filters.py 16, 34), so their members are strings too
IsInstanceStr(arg) == arg.kind \in {"str", "enum"}

\* filters.py 41-46; a str-enum member hashes and compares as its value, so
\* RESOURCE_TYPE_MAP.get looks the member up under its value
NormalizeResourceType(arg) ==
    IF IsInstanceStr(arg)
    THEN [exc |-> "none",
          v |-> IF arg.v \in DOMAIN RESOURCE_TYPE_MAP
                THEN RESOURCE_TYPE_MAP[arg.v] ELSE "generic"]
    ELSE IF arg.kind = "enum"
         THEN [exc |-> "none", v |-> arg.v]
         ELSE [exc |-> "ValueError", v |-> ""]

\* filters.py 48-56
NormalizeOperationType(arg) ==
    IF IsInstanceStr(arg)
    THEN IF arg.v \in OperationTypes
         THEN [exc |-> "none", v |-> arg.v]
         ELSE [exc |-> "ValueError", v |-> ""]
    ELSE IF arg.kind = "enum"
         THEN [exc |-> "none", v |-> arg.v]
         ELSE [exc |-> "ValueError", v |-> ""]

(***************************************************************************)
(* utils/filters.py.  A step takes the heap and returns the heap after it, *)
(* with the exception it raised, if any.                                   *)
(***************************************************************************)
Ok(h) == [h |-> h, exc |-> "none"]
Fail(h, e) == [h |-> h, exc |-> e]

\* the strings of the model are atomic: the only one that contains k is k
StrContains(s, k) == s = k

ListContains(h, a, k) == \E i \in 1..Len(h[a].l) : h[a].l[i] = VStr(k)

\* filters.py 108-114
FieldsToRemove(config, op) ==
    config.always_remove
        \cup (IF op = "read" THEN config.read_remove
              ELSE IF op = "list" THEN config.list_remove ELSE {})

\* filters.py 146-150: each relationship that is a dict is copied and the copy
\* loses its links
RECURSIVE StripRelationshipLinks(_, _, _)
StripRelationshipLinks(h, r, keys) ==
    IF keys = {} THEN h
    ELSE LET k == CHOOSE x \in keys : TRUE
             v == Get(h, r, k)
             h1 == IF IsDict(h, v)
                   THEN LET hc == Copy(h, v.a)
                            c == Len(hc)
                        IN  PopAll(SetItem(hc, r, k, VRef(c)), c, {"links"})
                   ELSE h
         IN  StripRelationshipLinks(h1, r, keys \ {k})

\* filters.py 130-154: _filter_relationships, r the address of a dict
FilterRelationships(h, r, rtype, op) ==
    LET essential == ConfigOf(rtype).essential_relationships
        keep == IF op = "read" /\ ~essential.isNone /\ essential.s # {}
                THEN Keys(h, r) \cap essential.s
                ELSE Keys(h, r)
        h1 == PopAll(h, r, Keys(h, r) \ keep)
    IN  StripRelationshipLinks(h1, r, Keys(h1, r))

\* filters.py 120-127, for an item at address a that has attributes
FilterItemRelationships(h, a, rtype, op) ==
    IF "relationships" \in Keys(h, a)
    THEN LET rv == Get(h, a, "relationships")
         IN  IF rv.t # "ref" THEN Fail(h, "AttributeError")
             ELSE LET h1 == Copy(h, rv.a)
                      r == Len(h1)
                      h2 == SetItem(h1, a, "relationships", VRef(r))
                  IN  IF h2[r].kind # "dict" THEN Fail(h2, "AttributeError")
                      ELSE Ok(PopAll(FilterRelationships(h2, r, rtype, op), a, {"links"}))
    ELSE Ok(PopAll(h, a, {"links"}))

\* filters.py 93-127: _filter_item_attributes
FilterItemAttributes(h, item, rtype, op) ==
    IF item.t = "none" THEN Fail(h, "TypeError")
    ELSE IF item.t = "str"
         THEN IF StrContains(item.s, "attributes") THEN Fail(h, "TypeError") ELSE Ok(h)
    ELSE IF IsList(h, item)
         THEN IF ListContains(h, item.a, "attributes") THEN Fail(h, "TypeError") ELSE Ok(h)
    ELSE IF "attributes" \notin Keys(h, item.a) THEN Ok(h)
    ELSE LET a == item.a
             av == Get(h, a, "attributes")
         IN  IF ~IsDict(h, av) THEN Ok(h)
             ELSE LET h1 == Copy(h, av.a)
                      c == Len(h1)
                      h2 == SetItem(h1, a, "attributes", VRef(c))
                      h3 == PopAll(h2, c, FieldsToRemove(ConfigOf(rtype), op))
                  IN  FilterItemRelationships(h3, a, rtype, op)

\* filters.py 60-61: the items of the copied list, in order
RECURSIVE FilterItems(_, _, _, _, _)
FilterItems(h, l, i, rtype, op) ==
    IF i > Len(h[l].l) THEN Ok(h)
    ELSE LET f == FilterItemAttributes(h, h[l].l[i], rtype, op)
         IN  IF f.exc # "none" THEN f ELSE FilterItems(f.h, l, i + 1, rtype, op)

\* pagination.get(k)
GetOrNone(h, a, k) == IF k \in Keys(h, a) THEN Get(h, a, k) ELSE VNone

\* filters.py 172-178
TrimPagination(h, m) ==
    IF "pagination" \in Keys(h, m) /\ IsDict(h, Get(h, m, "pagination"))
    THEN LET p == Get(h, m, "pagination").a
             h1 == Append(h, DictCell([k \in {"current-page", "total-pages", "total-count"}
                                         |-> GetOrNone(h, p, k)]))
         IN  SetItem(h1, m, "pagination", VRef(Len(h1)))
    ELSE h

\* status-counts is replaced by an empty mapping when it has a total
TrimStatusCountsEmptied(h, m) ==
    IF "status-counts" \in Keys(h, m) /\ IsDict(h, Get(h, m, "status-counts"))
    THEN IF "total" \in Keys(h, Get(h, m, "status-counts").a)
         THEN SetItem(Append(h, DictCell(EmptyMap)), m, "status-counts", VRef(Len(h) + 1))
         ELSE PopAll(h, m, {"status-counts"})
    ELSE h

\* filters.py 179-184
TrimStatusCounts(h, m) ==
    IF "status-counts" \in Keys(h, m) /\ IsDict(h, Get(h, m, "status-counts"))
    THEN LET c == Get(h, m, "status-counts").a
         IN  IF "total" \in Keys(h, c)
             THEN LET h1 == Append(h, DictCell([k \in {"total"} |-> Get(h, c, "total")]))
                  IN  SetItem(h1, m, "status-counts", VRef(Len(h1)))
             ELSE PopAll(h, m, {"status-counts"})
    ELSE h

\* filters.py 170-184; meta is the copy made at line 38, a dict or a list
FilterMeta(h, mv) ==
    IF IsDict(h, mv) THEN Ok(TrimStatusCounts(TrimPagination(h, mv.a), mv.a))
    ELSE IF ListContains(h, mv.a, "pagination") \/ ListContains(h, mv.a, "status-counts")
         THEN Fail(h, "TypeError")
         ELSE Ok(h)

\* the top-level links are left as they are
KeepLinks(h, d) == h

\* filters.py 186-192
TrimLinks(h, d) ==
    IF "links" \in Keys(h, d) /\ IsDict(h, Get(h, d, "links"))
    THEN LET l == Get(h, d, "links").a
             h1 == Append(h, DictCell([k \in Keys(h, l) \cap {"next", "prev", "first", "last"}
                                         |-> Get(h, l, k)]))
         IN  SetItem(h1, d, "links", VRef(Len(h1)))
    ELSE h

\* filters.py 167-192: _filter_list_metadata, d the address of filtered_data
FilterListMetadata(h, d) ==
    LET f == IF "meta" \in Keys(h, d) THEN FilterMeta(h, Get(h, d, "meta")) ELSE Ok(h)
    IN  IF f.exc # "none" THEN f ELSE Ok(TrimLinks(f.h, d))

\* filters.py 30-33: a new list whose dict items are copies
RECURSIVE CopyItems(_, _, _, _)
CopyItems(h, src, i, acc) ==
    IF i > Len(src) THEN [h |-> h, l |-> acc]
    ELSE IF IsDict(h, src[i])
         THEN LET h1 == Copy(h, src[i].a)
              IN  CopyItems(h1, src, i + 1, Append(acc, VRef(Len(h1))))
         ELSE CopyItems(h, src, i + 1, Append(acc, src[i]))

\* filtered_data["data"] is left to share the items of the original
ShareData(h, d) == h

\* filters.py 29-35: filtered_data["data"] becomes a copy
CopyData(h, d) ==
    LET dv == Get(h, d, "data")
    IN  IF IsList(h, dv)
        THEN LET c == CopyItems(h, h[dv.a].l, 1, <<>>)
                 h1 == Append(c.h, ListCell(c.l))
             IN  SetItem(h1, d, "data", VRef(Len(h1)))
        ELSE IF IsDict(h, dv)
             THEN LET h1 == Copy(h, dv.a)
                  IN  SetItem(h1, d, "data", VRef(Len(h1)))
             ELSE h

\* filters.py 36-38, one key
CopyKey(f, d, key) ==
    IF f.exc # "none" \/ key \notin Keys(f.h, d) THEN f
    ELSE LET v == Get(f.h, d, key)
         IN  IF v.t # "ref" THEN Fail(f.h, "AttributeError")
             ELSE LET h1 == Copy(f.h, v.a)
                  IN  Ok(SetItem(h1, d, key, VRef(Len(h1))))

\* filters.py 36-38
CopyMetaAndLinks(h, d) == CopyKey(CopyKey(Ok(h), d, "meta"), d, "links")

Returned(h, v) == [h |-> h, exc |-> "none", ret |-> v]
Raises(h, e) == [h |-> h, exc |-> e, ret |-> VNone]

\* filters.py 58-69, on the copy at address d
FilterCopied(h, d, rtype, op) ==
    LET dv == Get(h, d, "data")
        f == IF IsList(h, dv)
             THEN FilterItems(h, dv.a, 1, rtype, op)
             ELSE FilterItemAttributes(h, dv, rtype, op)
        g == IF f.exc = "none" /\ op = "list" THEN FilterListMetadata(f.h, d) ELSE f
    IN  IF g.exc # "none" THEN Raises(g.h, g.exc) ELSE Returned(g.h, VRef(d))

\* filters.py 18-69: filter_response(data, resource_type, operation_type)
FilterResponse(h, x, resource_type, operation_type) ==
    IF ~IsDict(h, x) THEN Returned(h, x)
    ELSE IF "data" \notin Keys(h, x.a) THEN Returned(h, x)
    ELSE LET h1 == Copy(h, x.a)
             d == Len(h1)
             c == CopyMetaAndLinks(CopyData(h1, d), d)
             rt == NormalizeResourceType(resource_type)
             ot == NormalizeOperationType(operation_type)
         IN  IF c.exc # "none" THEN Raises(c.h, c.exc)
             ELSE IF rt.exc # "none" THEN Raises(c.h, rt.exc)
             ELSE IF ot.exc # "none" THEN Raises(c.h, ot.exc)
             ELSE FilterCopied(c.h, d, rt.v, ot.v)

(***************************************************************************)
(* The envelopes given to filter_response: JSON:API documents as the API   *)
(* returns them, each dict and list a cell of its own.                     *)
(***************************************************************************)
\* lists of resources have at most MaxItems items
MaxItems == 2

\* the resource type an argument names
Intended(arg) ==
    IF arg.v \in ResourceTypes THEN arg.v
    ELSE IF arg.v \in DOMAIN RESOURCE_TYPE_MAP THEN RESOURCE_TYPE_MAP[arg.v]
    ELSE "generic"

\* the fields the policy of type t names
PolicyFields(t) ==
    ConfigOf(t).always_remove \cup ConfigOf(t).read_remove \cup ConfigOf(t).list_remove

AttrKeys(kind, t) ==
    CASE kind = "full" -> PolicyFields(t) \cup {"name", "created-at"}
      [] kind = "name" -> {"name"}
      [] OTHER -> {}

\* one of the relationships the policy of type t calls essential, if any
EssentialSample(t) ==
    LET E == ConfigOf(t).essential_relationships.s
    IN  IF E = {} THEN {} ELSE {CHOOSE x \in E : TRUE}

RelKeys(kind, t) ==
    IF kind = "full" THEN EssentialSample(t) \cup {"extra", "created-by"} ELSE {}

ItemShape(attrs, rels, links) == [attrs |-> attrs, rels |-> rels, links |-> links]

\* the items of a list
ListItemShapes ==
    {ItemShape("full", "full", TRUE),
     ItemShape("name", "absent", FALSE),
     ItemShape("absent", "full", TRUE)}

\* a single resource
ItemShapes ==
    ListItemShapes
        \cup {ItemShape("empty", "empty", FALSE),
              ItemShape("full", "absent", TRUE),
              ItemShape("name", "full", FALSE)}

RECURSIVE SeqsUpTo(_, _)
SeqsUpTo(S, n) ==
    IF n = 0 THEN {<<>>}
    ELSE LET shorter == SeqsUpTo(S, n - 1)
         IN  shorter \cup {Append(q, x) : q \in {t \in shorter : Len(t) = n - 1}, x \in S}

DataShapes ==
    {[kind |-> "absent", items |-> <<>>]}
        \cup {[kind |-> "single", items |-> <<sh>>] : sh \in ItemShapes}
        \cup {[kind |-> "list", items |-> q] : q \in SeqsUpTo(ListItemShapes, MaxItems)}

MetaProfiles == {"none", "full", "partial", "empty"}

\* envelopes of an unexpected shape: a meta that is a string, relationships
\* that are a string, a list element that is null
UnexpectedShapes ==
    {[data |-> [kind |-> "single", items |-> <<ItemShape("full", "full", TRUE)>>],
      profile |-> "text"],
     [data |-> [kind |-> "single", items |-> <<ItemShape("full", "text", TRUE)>>],
      profile |-> "none"],
     [data |-> [kind |-> "list", items |-> <<ItemShape("full", "text", FALSE)>>],
      profile |-> "full"],
     [data |-> [kind |-> "list",
                items |-> <<ItemShape("full", "full", TRUE), ItemShape("null", "absent", FALSE)>>],
      profile |-> "full"]}

\* every data shape under full metadata, every metadata profile over a
\* single resource, a one-item list and an empty list, and the unexpected
EnvelopeShapes ==
    UnexpectedShapes
        \cup {[data |-> ds, profile |-> "full"] : ds \in DataShapes}
        \cup {[data |-> ds, profile |-> mp] :
                 ds \in {[kind |-> "single", items |-> <<ItemShape("full", "full", TRUE)>>],
                         [kind |-> "list", items |-> <<ItemShape("full", "full", TRUE)>>],
                         [kind |-> "list", items |-> <<>>]},
                 mp \in MetaProfiles}

IdNames == <<"id-1", "id-2", "id-3", "id-4">>

Alloc(h, cell) == Append(h, cell)

\* every relationship but created-by carries links
RECURSIVE BuildRelEntries(_, _, _)
BuildRelEntries(h, keys, acc) ==
    IF keys = {} THEN [h |-> h, d |-> acc]
    ELSE LET k == CHOOSE x \in keys : TRUE
             h1 == IF k # "created-by"
                   THEN Alloc(h, DictCell([x \in {"related"} |-> VStr("url")]))
                   ELSE h
             entry == IF k # "created-by"
                      THEN [x \in {"data", "links"} |->
                              IF x = "data" THEN VStr("ref") ELSE VRef(Len(h1))]
                      ELSE [x \in {"data"} |-> VStr("ref")]
             h2 == Alloc(h1, DictCell(entry))
         IN  BuildRelEntries(h2, keys \ {k},
                             [x \in (DOMAIN acc) \cup {k} |->
                                 IF x = k THEN VRef(Len(h2)) ELSE acc[x]])

\* the JSON:API type of the resources of type t
TypeTag(t) ==
    CASE t = "workspace" -> "workspaces"
      [] t = "run" -> "runs"
      [] t = "organization" -> "organizations"
      [] t = "project" -> "projects"
      [] t = "variable" -> "vars"
      [] t = "plan" -> "plans"
      [] t = "apply" -> "applies"
      [] t = "state-version" -> "state-versions"
      [] t = "cost-estimate" -> "cost-estimates"
      [] t = "assessment" -> "assessment-results"
      [] t = "account" -> "users"
      [] OTHER -> "things"

BuildItem(h, shape, t, i) ==
    IF shape.attrs = "null" THEN [h |-> h, v |-> VNone]
    ELSE
    LET h1 == IF shape.attrs # "absent"
              THEN Alloc(h, DictCell([k \in AttrKeys(shape.attrs, t) |-> VStr("v")]))
              ELSE h
        av == VRef(Len(h1))
        rb == BuildRelEntries(h1, RelKeys(shape.rels, t), EmptyMap)
        h2 == IF shape.rels \notin {"absent", "text"}
              THEN Alloc(rb.h, DictCell(rb.d)) ELSE h1
        rv == IF shape.rels = "text" THEN VStr("text") ELSE VRef(Len(h2))
        h3 == IF shape.links
              THEN Alloc(h2, DictCell([k \in {"self"} |-> VStr("url")]))
              ELSE h2
        lv == VRef(Len(h3))
        keys == {"type", "id"}
                  \cup (IF shape.attrs # "absent" THEN {"attributes"} ELSE {})
                  \cup (IF shape.rels # "absent" THEN {"relationships"} ELSE {})
                  \cup (IF shape.links THEN {"links"} ELSE {})
        h4 == Alloc(h3, DictCell([k \in keys |->
                  CASE k = "type" -> VStr(TypeTag(t))
                    [] k = "id" -> VStr(IdNames[i])
                    [] k = "attributes" -> av
                    [] k = "relationships" -> rv
                    [] OTHER -> lv]))
    IN  [h |-> h4, v |-> VRef(Len(h4))]

\* the items built so far and the next one
AddItem(acc, b) == [h |-> b.h, l |-> Append(acc.l, b.v)]

RECURSIVE BuildItems(_, _, _, _)
BuildItems(acc, shapes, t, i) ==
    IF i > Len(shapes) THEN acc
    ELSE BuildItems(AddItem(acc, BuildItem(acc.h, shapes[i], t, i)), shapes, t, i + 1)

\* the list of the items built
ListOfItems(b) == [h |-> Alloc(b.h, ListCell(b.l)), v |-> VRef(Len(b.h) + 1)]

BuildData(h, ds, t) ==
    IF ds.kind = "single" THEN BuildItem(h, ds.items[1], t, 1)
    ELSE ListOfItems(BuildItems([h |-> h, l |-> <<>>], ds.items, t, 1))

PaginationOf(profile) ==
    IF profile = "full"
    THEN [k \in {"current-page", "total-pages", "total-count", "page-size", "next-page"} |->
            CASE k = "current-page" -> VStr("1")
              [] k = "total-pages" -> VStr("3")
              [] k = "total-count" -> VStr("42")
              [] k = "page-size" -> VStr("20")
              [] OTHER -> VStr("2")]
    ELSE [k \in {"current-page"} |-> VStr("1")]

StatusCountsOf(profile) ==
    IF profile = "full"
    THEN [k \in {"total", "applied"} |-> IF k = "total" THEN VStr("42") ELSE VStr("7")]
    ELSE [k \in {"applied"} |-> VStr("7")]

LinksOf(profile) ==
    CASE profile = "full" -> [k \in {"self", "next", "prev", "first", "last"} |-> VStr(k)]
      [] profile = "partial" -> [k \in {"self", "next"} |-> VStr(k)]
      [] OTHER -> EmptyMap

BuildMeta(h, profile) ==
    IF profile = "text" THEN [h |-> h, v |-> VStr("text")]
    ELSE IF profile = "empty"
    THEN LET h1 == Alloc(h, DictCell(EmptyMap)) IN [h |-> h1, v |-> VRef(Len(h1))]
    ELSE LET h1 == Alloc(h, DictCell(PaginationOf(profile)))
             h2 == Alloc(h1, DictCell(StatusCountsOf(profile)))
             h3 == Alloc(h2, DictCell([k \in {"pagination", "status-counts", "other"} |->
                       CASE k = "pagination" -> VRef(Len(h1))
                         [] k = "status-counts" -> VRef(Len(h2))
                         [] OTHER -> VStr("v")]))
         IN  [h |-> h3, v |-> VRef(Len(h3))]

\* the top-level dict over the data db and the meta mb, with its links
TopLevel(db, mb, profile) ==
    [h |-> mb.h
             \o (IF profile = "none" THEN <<>> ELSE <<DictCell(LinksOf(profile))>>)
             \o <<DictCell([k \in (IF db.v = VNone THEN {"errors"} ELSE {"data"})
                                    \cup (IF profile = "none" THEN {} ELSE {"meta", "links"}) |->
                     CASE k = "data" -> db.v
                       [] k = "meta" -> mb.v
                       [] k = "links" -> VRef(Len(mb.h) + 1)
                       [] OTHER -> VStr("v")])>>,
     v |-> VRef(Len(mb.h) + (IF profile = "none" THEN 1 ELSE 2))]

WithMeta(db, profile) ==
    TopLevel(db, IF profile = "none" THEN [h |-> db.h, v |-> VNone]
                 ELSE BuildMeta(db.h, profile), profile)

\* the envelope {data?, meta?, links?}
BuildEnvelope(ds, profile, t) ==
    WithMeta(IF ds.kind = "absent" THEN [h |-> <<>>, v |-> VNone]
             ELSE BuildData(<<>>, ds, t), profile)

IndexNames == <<"#1", "#2", "#3", "#4">>

\* the content of a value: one entry per node reachable from it, with the path
\* of keys and indices that leads to it (what Python's == compares)
RECURSIVE Deep(_, _, _)
Deep(h, v, trail) ==
    IF v.t # "ref" THEN {[p |-> trail, k |-> v.t, s |-> v.s]}
    ELSE IF h[v.a].kind = "dict"
         THEN {[p |-> trail, k |-> "dict", s |-> ""]}
                \cup UNION {Deep(h, h[v.a].d[key], Append(trail, key)) : key \in DOMAIN h[v.a].d}
         ELSE {[p |-> trail, k |-> "list", s |-> ""]}
                \cup UNION {Deep(h, h[v.a].l[i], Append(trail, IndexNames[i])) :
                              i \in 1..Len(h[v.a].l)}

Content(h, v) == Deep(h, v, <<>>)

\* the arguments callers pass: members, their values, plural aliases, an unknown tag
TypeArgs ==
    {EnumArg(t) : t \in ResourceTypes}
        \cup {StrArg(t) : t \in ResourceTypes}
        \cup {StrArg(t) : t \in {"workspaces", "vars", "users", "assessment-results", "unknown"}}

OpArgs == {EnumArg(o) : o \in OperationTypes} \cup {StrArg(o) : o \in OperationTypes}

TransportIdle ==
    /\ pc = "idle"
    /\ fn = "api_request"
    /\ explicitToken = NoneStr
    /\ defaultToken = NoneStr
    /\ method = "GET"
    /\ excText = <<>>
    /\ calls = <<>>
    /\ response = NoResponse
    /\ result = NoResult
    /\ path = <<>>
    /\ enableRawResponse = NoneStr
    /\ returned = VNone

InitFilter ==
    /\ TransportIdle
    /\ fpc = "ready"
    /\ rtArg \in TypeArgs
    /\ opArg \in OpArgs
    /\ \E sh \in EnvelopeShapes :
          \E b \in {BuildEnvelope(sh.data, sh.profile, Intended(rtArg))} :
              /\ heap = b.h
              /\ env = b.v
    /\ out = [exc |-> "none", ret |-> VNone]
    /\ out2 = [exc |-> "none", ret |-> VNone]
    /\ dpc = "idle"
    /\ detected = NotDetected
    /\ CallersIdle
    /\ data = NoData
    /\ ServerIdle

\* filter_response(env, rtArg, opArg)
Filter ==
    /\ fpc = "ready"
    /\ \E r \in {FilterResponse(heap, env, rtArg, opArg)} :
           /\ heap' = r.h
           /\ out' = [exc |-> r.exc, ret |-> r.ret]
    /\ fpc' = "filtered"
    /\ UNCHANGED <<env, rtArg, opArg, out2>>
    /\ UNCHANGED outsideFilter

\* filter_response(out, rtArg, opArg): the result is filtered once more
FilterAgain ==
    /\ fpc = "filtered"
    /\ out.exc = "none"
    /\ \E r \in {FilterResponse(heap, out.ret, rtArg, opArg)} :
           /\ heap' = r.h
           /\ out2' = [exc |-> r.exc, ret |-> r.ret]
    /\ fpc' = "refiltered"
    /\ UNCHANGED <<env, rtArg, opArg, out>>
    /\ UNCHANGED outsideFilter

NextFilter == Filter \/ FilterAgain

SpecFilter == InitFilter /\ [][NextFilter]_vars

(***************************************************************************)
(* Paths, methods and environment values.  A path is a sequence of word    *)
(* pieces; the pieces are cut so that one string occurs in another exactly *)
(* when its pieces occur in the other's, in a row.                         *)
(***************************************************************************)
\* str.lower(), piece by piece
LowerWord(w) ==
    CASE w = "Log" -> "log"
      [] w = "TRUE" -> "true"
      [] w = "True" -> "true"
      [] w = "ON" -> "on"
      [] w = "Yes" -> "yes"
      [] OTHER -> w

Lower(s) == [i \in 1..Len(s) |-> LowerWord(s[i])]

\* str.upper() of a method name
UpperWord(w) ==
    CASE w \in {"get", "Get"} -> "GET"
      [] w = "post" -> "POST"
      [] w = "delete" -> "DELETE"
      [] OTHER -> w

Whitespace == {" ", "\t"}

\* str.strip()
Strip(s) ==
    IF \A i \in 1..Len(s) : s[i] \in Whitespace THEN <<>>
    ELSE SubSeq(s, CHOOSE i \in 1..Len(s) :
                       s[i] \notin Whitespace /\ \A j \in 1..(i - 1) : s[j] \in Whitespace,
                   CHOOSE i \in 1..Len(s) :
                       s[i] \notin Whitespace /\ \A j \in (i + 1)..Len(s) : s[j] \in Whitespace)

\* os.getenv(name, "false")
GetEnvOrFalse(v) == IF v.isNone THEN <<"false">> ELSE v.s

\* utils/env.py 23-26
ShouldReturnRawResponse(v) ==
    Strip(Lower(GetEnvOrFalse(v))) \in {<<"true">>, <<"1">>, <<"yes">>, <<"on">>}

\* the paths the tools request, and some they do not
Paths ==
    {<<"organization", "s", "/", "acme", "/", "workspace", "s">>,
     <<"organization", "s", "/", "acme", "/", "project", "s">>,
     <<"organization", "s", "/", "acme", "/", "run", "s">>,
     <<"organization", "s">>,
     <<"organization", "s", "/", "org", "-", "1">>,
     <<"workspace", "s", "/", "ws", "-", "1", "/", "run", "s">>,
     <<"workspace", "s", "/", "ws", "-", "1", "/", "var", "s">>,
     <<"workspace", "s", "/", "ws", "-", "1", "/", "state-version", "s">>,
     <<"workspace", "s", "/", "ws", "-", "1">>,
     <<"organization", "s", "/", "acme", "/", "workspace", "s", "/", "Log", "s">>,
     <<"state-version", "s", "/", "sv", "-", "1", "/", "outputs">>,
     <<"state-version", "-", "outputs", "/", "wsout", "-", "1">>,
     <<"state-version", "s", "/", "sv", "-", "1">>,
     <<"run", "s", "/", "run", "-", "1">>,
     <<"plan", "s", "/", "plan", "-", "1">>,
     <<"plan", "s", "/", "plan", "-", "1", "/", "json-output">>,
     <<"appl", "ies", "/", "apply", "-", "1">>,
     <<"cost-estimate", "s", "/", "ce", "-", "1">>,
     <<"assessment-result", "s", "/", "asmtres", "-", "1">>,
     <<"account", "/", "details">>,
     <<"project", "s", "/", "prj", "-", "1">>,
     <<"workspace", "s", "/", "ws", "-", "1", "/", "var", "s", "/", "var", "-", "1">>,
     <<"organization", "s", "/", "acme", "/", "var", "s", "ets">>,
     <<"organization", "s", "/", "acme", "/", "workspace", "s", "/", "prod", "-", "run", "-", "1">>,
     <<"ping">>}

(***************************************************************************)
(* utils/filters.py: detection of the resource type and the operation.     *)
(***************************************************************************)
\* configs/filter_configs.py 139-154, in table order
PATH_PATTERNS ==
    <<[pattern |-> <<"state-version", "s">>, type |-> "state-version"],
      [pattern |-> <<"state-version", "-", "outputs">>, type |-> "state-version"],
      [pattern |-> <<"assessment-result", "s">>, type |-> "assessment"],
      [pattern |-> <<"cost-estimate", "s">>, type |-> "cost-estimate"],
      [pattern |-> <<"workspace", "s">>, type |-> "workspace"],
      [pattern |-> <<"run", "s">>, type |-> "run"],
      [pattern |-> <<"organization", "s">>, type |-> "organization"],
      [pattern |-> <<"project", "s">>, type |-> "project"],
      [pattern |-> <<"plan", "s">>, type |-> "plan"],
      [pattern |-> <<"appl", "ies">>, type |-> "apply"],
      [pattern |-> <<"var", "s">>, type |-> "variable"],
      [pattern |-> <<"var", "iable", "s">>, type |-> "variable"],
      [pattern |-> <<"account", "/", "details">>, type |-> "account"],
      [pattern |-> <<"user", "s">>, type |-> "account"]>>

\* configs/filter_configs.py 157-161
DATA_TYPE_MAP ==
    [k \in {"projects", "vars", "runs"} |->
        CASE k = "projects" -> "project"
          [] k = "vars" -> "variable"
          [] OTHER -> "run"]

\* the entries of PATH_PATTERNS whose pattern occurs in p
MatchingPatterns(p) ==
    {i \in 1..Len(PATH_PATTERNS) : Contains(p, PATH_PATTERNS[i].pattern)}

\* a scan that stops at the last entry that matches
LastOf(S) == CHOOSE i \in S : \A j \in S : j <= i

\* filters.py 221-223: the loop returns at the first entry that matches
FirstOf(S) == CHOOSE i \in S : \A j \in S : i <= j

DetectedType(t) == [exc |-> "none", v |-> t]
DetectionRaises(e) == [exc |-> e, v |-> ""]

\* filters.py 235-242, for the value found under "type"
ResourceTypeOfTag(tag) ==
    IF tag.t = "ref" THEN DetectionRaises("TypeError")
    ELSE IF tag.t = "str" /\ tag.s \in DOMAIN DATA_TYPE_MAP THEN DetectedType(DATA_TYPE_MAP[tag.s])
    ELSE IF tag.t = "str" /\ tag.s \in ResourceTypes THEN DetectedType(tag.s)
    ELSE DetectedType("generic")

\* item.get("type", "unknown")
TypeOfItem(h, item) ==
    IF ~IsDict(h, item) THEN DetectionRaises("AttributeError")
    ELSE IF "type" \in Keys(h, item.a) THEN ResourceTypeOfTag(Get(h, item.a, "type"))
    ELSE ResourceTypeOfTag(VStr("unknown"))

\* filters.py 226-242: the fallback on the body
BodyResourceType(h, x) ==
    IF ~IsDict(h, x) THEN DetectedType("generic")
    ELSE IF "data" \notin Keys(h, x.a) THEN DetectedType("generic")
    ELSE IF IsList(h, Get(h, x.a, "data"))
         THEN IF Len(h[Get(h, x.a, "data").a].l) > 0
              THEN TypeOfItem(h, h[Get(h, x.a, "data").a].l[1])
              ELSE DetectedType("generic")
    ELSE IF IsDict(h, Get(h, x.a, "data")) THEN TypeOfItem(h, Get(h, x.a, "data"))
    ELSE DetectedType("generic")

\* filters.py 218-242: detect_resource_type(path, data)
DetectResourceType(p, h, x) ==
    IF MatchingPatterns(p) # {}
    THEN DetectedType(PATH_PATTERNS[FirstOf(MatchingPatterns(p))].type)
    ELSE BodyResourceType(h, x)

\* filters.py 248: id_prefixes
IdPrefixes == {<<"ws", "-">>, <<"run", "-">>, <<"org", "-">>, <<"prj", "-">>, <<"var", "-">>}

\* some prefix occurs somewhere in the path
HasResourceIdAnywhere(p) == \E prefix \in IdPrefixes : Contains(p, prefix)

\* filters.py 249-253: some segment of path.split("/") starts with a prefix
HasResourceId(p) ==
    \E i \in 1..Len(p) :
        /\ i = 1 \/ p[i - 1] = "/"
        /\ \E prefix \in IdPrefixes : StartsWithAt(p, i, prefix)

\* filters.py 245-255: detect_operation_type(path, method)
DetectOperationType(p, m) ==
    IF UpperWord(m) = "GET"
    THEN IF HasResourceId(p) THEN "read" ELSE "list"
    ELSE "manage"

\* filters.py 214: skip_terms
SkipTerms == {<<"log">>, <<"download">>, <<"json-output">>, <<"content">>}

\* filters.py 207-215: should_filter_response(path, method)
ShouldFilterResponse(p, m) ==
    /\ UpperWord(m) = "GET"
    /\ \A term \in SkipTerms : ~Contains(Lower(p), term)

\* the methods a caller of the detection functions passes
DetectMethods == {"GET", "get", "Get", "POST", "PATCH", "DELETE"}

\* the bodies given to the detection functions and returned by the server
BodyShapes ==
    {[data |-> [kind |-> "single", items |-> <<ItemShape("full", "full", TRUE)>>],
      profile |-> "none"],
     [data |-> [kind |-> "list", items |-> <<ItemShape("full", "full", TRUE)>>],
      profile |-> "full"],
     [data |-> [kind |-> "list", items |-> <<>>], profile |-> "full"],
     [data |-> [kind |-> "absent", items |-> <<>>], profile |-> "none"]}

BodyTypes == {"workspace", "run", "variable", "account"}

\* the transport is not in use, and path and method are the caller's
TransportUnused ==
    /\ pc = "idle"
    /\ fn = "api_request"
    /\ explicitToken = NoneStr
    /\ defaultToken = NoneStr
    /\ excText = <<>>
    /\ calls = <<>>
    /\ response = NoResponse
    /\ result = NoResult
    /\ enableRawResponse = NoneStr
    /\ returned = VNone

InitDetect ==
    /\ TransportUnused
    /\ path \in Paths
    /\ method \in DetectMethods
    /\ fpc = "idle"
    /\ \E sh \in BodyShapes, t \in BodyTypes :
          \E b \in {BuildEnvelope(sh.data, sh.profile, t)} :
              /\ heap = b.h
              /\ env = b.v
    /\ rtArg = OtherArg
    /\ opArg = OtherArg
    /\ out = [exc |-> "none", ret |-> VNone]
    /\ out2 = [exc |-> "none", ret |-> VNone]
    /\ dpc = "ready"
    /\ detected = NotDetected
    /\ CallersIdle
    /\ data = NoData
    /\ ServerIdle

\* detect_resource_type(path, env), detect_operation_type(path, method) and
\* should_filter_response(path, method)
Detect ==
    /\ dpc = "ready"
    /\ detected' = [resource |-> DetectResourceType(path, heap, env),
                    operation |-> DetectOperationType(path, method),
                    filter |-> ShouldFilterResponse(path, method)]
    /\ dpc' = "detected"
    /\ UNCHANGED outsideDetect

NextDetect == Detect

SpecDetect == InitDetect /\ [][NextDetect]_vars

\* the values of ENABLE_RAW_RESPONSE
RawResponseValues == {NoneStr, Str(<<"false">>), Str(<<" ", "TRUE", " ">>), Str(<<"1">>)}

\* the paths requested in the runs of api_request that return a body
GetPaths ==
    {p \in Paths :
        \/ Len(p) = 7
        \/ p \in {<<"run", "s", "/", "run", "-", "1">>,
                  <<"account", "/", "details">>,
                  <<"plan", "s", "/", "plan", "-", "1", "/", "json-output">>,
                  <<"organization", "s", "/", "acme", "/", "workspace", "s", "/", "Log", "s">>}}

\* api_request(path, method) with a token, the server holding the body env
InitGet ==
    /\ pc = "call"
    /\ fn = "api_request"
    /\ explicitToken = Str(<<"a">>)
    /\ defaultToken = NoneStr
    /\ method \in {"GET", "POST", "DELETE"}
    /\ excText = <<"D">>
    /\ calls = <<>>
    /\ response = NoResponse
    /\ result = NoResult
    /\ path \in GetPaths
    /\ enableRawResponse \in RawResponseValues
    /\ returned = VNone
    /\ fpc = "idle"
    /\ \E sh \in {x \in BodyShapes : x.data.kind # "absent" /\ x.data.items # <<>>},
          t \in {"workspace", "account"} :
          \E b \in {BuildEnvelope(sh.data, sh.profile, t)} :
              /\ heap = b.h
              /\ env = b.v
    /\ rtArg = OtherArg
    /\ opArg = OtherArg
    /\ out = [exc |-> "none", ret |-> VNone]
    /\ out2 = [exc |-> "none", ret |-> VNone]
    /\ dpc = "idle"
    /\ detected = NotDetected
    /\ CallersIdle
    /\ data = NoData
    /\ ServerIdle

SpecGet == InitGet /\ [][NextApi]_vars

(***************************************************************************)
(* tools/state_versions.py, tools/assessment_results.py: tools that call   *)
(* api_request, under the decorator of utils/decorators.py.                *)
(***************************************************************************)
\* the parameters api_request declares (client.py 105-111)
ApiRequestParameters == {"path", "method", "token", "params", "data"}

\* a call binds when every keyword it passes is a declared parameter;
\* otherwise Python raises TypeError before the body of the function runs
BindsArguments(kw) == kw \subseteq ApiRequestParameters

Tools ==
    {"download_state_file", "get_assessment_json_output", "get_assessment_result_details",
     "get_plan_json_output", "apply_run"}

\* the transport function a tool calls, and the method it passes
\* (apply_run of src/tools/runs.py calls make_api_request with POST)
ToolTransport(t) == IF t = "apply_run" THEN "make_api_request" ELSE "api_request"

ToolMethod(t) == IF t = "apply_run" THEN "POST" ELSE "GET"

\* the tools whose only call of api_request is their return value
SingleCallTools == {"get_assessment_json_output", "get_assessment_result_details"}

\* the keywords of a tool's first call of api_request
FirstKwargs(t) ==
    CASE t = "get_assessment_json_output" -> {"path", "accept_text"}
      [] t = "apply_run" -> {"path", "method", "data"}
      [] OTHER -> {"path"}

\* the keywords of download_state_file's second call
DownloadKwargs == {"path", "external_url", "accept_text"}

FirstPath(t) ==
    CASE t = "download_state_file" -> <<"state-version", "s", "/", "sv", "-", "1">>
      [] t = "get_assessment_json_output" ->
            <<"assessment-result", "s", "/", "asmtres", "-", "1", "/", "json-output">>
      [] t = "get_plan_json_output" -> <<"plan", "s", "/", "plan", "-", "1", "/", "json-output">>
      [] t = "apply_run" -> <<"run", "s", "/", "run", "-", "1", "/", "actions", "/", "apply">>
      [] OTHER -> <<"assessment-result", "s", "/", "asmtres", "-", "1">>

ToolReturns(r) == [ret |-> "mapping", exc |-> "", value |-> r]
ToolRaises(e) == [ret |-> "raised", exc |-> e, value |-> NoResult]

ValidationFailed == [fmt |-> "{validation error}", status |-> 0, text |-> <<>>]

UrlNotAvailable(json_format) ==
    [fmt |-> IF json_format THEN "JSON state download URL not available"
             ELSE "State download URL not available",
     status |-> 0, text |-> <<>>]

\* handle_api_errors: a ValueError becomes {"error": str(e)}, any other
\* exception leaves the tool
HandleApiErrors(e) ==
    IF e = "ValueError" THEN ToolReturns(ErrorMapping(ValidationFailed)) ELSE ToolRaises(e)

\* plans.py 72-83: get_plan_json_output on what api_request returned; an error
\* text holding "307" is replaced by a mapping of the tool's own
RedirectNeedsAuthentication ==
    [fmt |-> "The plan JSON output requires following a redirect which needs direct authentication.",
     status |-> 0, text |-> <<>>]

PlanJsonOutput(r) ==
    IF "error" \in r.keys /\ r.error.fmt = "API request failed: {status_code}"
                          /\ r.error.status = 307
    THEN Mapping(FALSE, {"error", "workaround", "run_url"}, RedirectNeedsAuthentication, "error")
    ELSE r

\* src/tools/runs.py 434-443: apply_run on what make_api_request returned
ApplyRun(r) ==
    IF r.success
    THEN Mapping(TRUE, {"status", "message"}, NoError, "queued")
    ELSE r

UrlAttr(json_format) ==
    IF json_format THEN "hosted-json-state-download-url" ELSE "hosted-state-download-url"

\* state_version.get("data", {}).get("attributes", {}).get(url_attr) over a
\* decoded body x
UrlInBody(h, x, url_attr) ==
    IF "data" \notin Keys(h, x.a) THEN [exc |-> "none", found |-> FALSE]
    ELSE IF ~IsDict(h, Get(h, x.a, "data")) THEN [exc |-> "AttributeError", found |-> FALSE]
    ELSE IF "attributes" \notin Keys(h, Get(h, x.a, "data").a)
         THEN [exc |-> "none", found |-> FALSE]
    ELSE IF ~IsDict(h, Get(h, Get(h, x.a, "data").a, "attributes"))
         THEN [exc |-> "AttributeError", found |-> FALSE]
    ELSE [exc |-> "none",
          found |-> url_attr \in Keys(h, Get(h, Get(h, x.a, "data").a, "attributes").a)]

\* the same over what api_request returned: the decoded body, {"data": <list>},
\* or a mapping without "data"
DownloadUrl(r, h, x, url_attr) ==
    CASE r.value = "body" -> UrlInBody(h, x, url_attr)
      [] r.value = "wrapped_body" -> [exc |-> "AttributeError", found |-> FALSE]
      [] OTHER -> [exc |-> "none", found |-> FALSE]

\* the state versions the server holds
StateVersionShapes ==
    {[data |-> [kind |-> "single", items |-> <<ItemShape("full", "full", TRUE)>>],
      profile |-> "none"],
     [data |-> [kind |-> "single", items |-> <<ItemShape("name", "absent", FALSE)>>],
      profile |-> "none"],
     [data |-> [kind |-> "single", items |-> <<ItemShape("absent", "full", TRUE)>>],
      profile |-> "none"],
     [data |-> [kind |-> "list", items |-> <<ItemShape("full", "full", TRUE)>>],
      profile |-> "full"],
     [data |-> [kind |-> "absent", items |-> <<>>], profile |-> "none"]}

InitTool ==
    /\ tool \in Tools
    /\ pc = "idle"
    /\ fn = ToolTransport(tool)
    /\ explicitToken = NoneStr
    /\ defaultToken \in {NoneStr, Str(<<"a">>)}
    /\ method = ToolMethod(tool)
    /\ excText = <<"D">>
    /\ calls = <<>>
    /\ response = NoResponse
    /\ result = NoResult
    /\ path = <<>>
    /\ enableRawResponse = NoneStr
    /\ returned = VNone
    /\ fpc = "idle"
    /\ \E sh \in StateVersionShapes :
          \E b \in {BuildEnvelope(sh.data, sh.profile, "state-version")} :
              /\ heap = b.h
              /\ env = b.v
    /\ rtArg = OtherArg
    /\ opArg = OtherArg
    /\ out = [exc |-> "none", ret |-> VNone]
    /\ out2 = [exc |-> "none", ret |-> VNone]
    /\ dpc = "idle"
    /\ detected = NotDetected
    /\ targs \in [valid : BOOLEAN, json_format : BOOLEAN]
    /\ tpc = "start"
    /\ kwargs = {}
    /\ tret = NoToolResult
    /\ qpc = "idle"
    /\ qmodel = <<>>
    /\ qparams = <<>>
    /\ ppc = "idle"
    /\ preq = <<>>
    /\ payload = VNone
    /\ added = <<>>
    /\ data = NoData
    /\ ServerIdle

\* The tool up to its first call of api_request: the request model validates
\* the arguments, then the call binds its keywords
\* (state_versions.py 223-226, assessment_results.py 64-70, 34-37).
ToolStarts ==
    /\ tpc = "start"
    /\ IF ~targs.valid
       THEN /\ tret' = HandleApiErrors("ValueError")
            /\ tpc' = "done"
            /\ UNCHANGED <<kwargs, pc, path>>
       ELSE /\ kwargs' = FirstKwargs(tool)
            /\ IF BindsArguments(FirstKwargs(tool))
               THEN /\ pc' = "call"
                    /\ path' = FirstPath(tool)
                    /\ tpc' = "awaiting"
                    /\ tret' = tret
               ELSE /\ tret' = HandleApiErrors("TypeError")
                    /\ tpc' = "done"
                    /\ UNCHANGED <<pc, path>>
    /\ UNCHANGED <<tool, targs>>
    /\ UNCHANGED <<fn, explicitToken, defaultToken, method, excText, calls, response,
                   result, enableRawResponse, returned>>
    /\ UNCHANGED outsideTool

\* The tool once api_request has returned: a tool with one call returns what
\* it got; download_state_file looks the URL up and calls api_request again
\* (state_versions.py 229-244).
ToolResumes ==
    /\ tpc = "awaiting"
    /\ pc = "done"
    /\ tpc' = "done"
    /\ IF tool \in SingleCallTools
       THEN /\ tret' = ToolReturns(result)
            /\ kwargs' = kwargs
       ELSE IF tool = "get_plan_json_output"
       THEN /\ tret' = ToolReturns(PlanJsonOutput(result))
            /\ kwargs' = kwargs
       ELSE IF tool = "apply_run"
       THEN /\ tret' = ToolReturns(ApplyRun(result))
            /\ kwargs' = kwargs
       ELSE \E u \in {DownloadUrl(result, heap, env, UrlAttr(targs.json_format))} :
               IF u.exc # "none"
               THEN /\ tret' = HandleApiErrors(u.exc)
                    /\ kwargs' = kwargs
               ELSE IF ~u.found
                    THEN /\ tret' = ToolReturns(ErrorMapping(UrlNotAvailable(targs.json_format)))
                         /\ kwargs' = kwargs
                    ELSE \* external_url and accept_text are not parameters of
                         \* api_request: the call raises TypeError
                         /\ ~BindsArguments(DownloadKwargs)
                         /\ kwargs' = DownloadKwargs
                         /\ tret' = HandleApiErrors("TypeError")
    /\ UNCHANGED <<tool, targs>>
    /\ UNCHANGED apiVars
    /\ UNCHANGED outsideTool

NextTool == ToolStarts \/ Invoke \/ Respond \/ TransportRaises \/ ToolResumes

SpecTool == InitTool /\ [][NextTool]_vars

(***************************************************************************)
(* utils/request.py: query_params.  A field name is the sequence of its    *)
(* words and underscores, a string the sequence of its pieces.             *)
(***************************************************************************)
FNone == [t |-> "none", s |-> <<>>, n |-> 0, b |-> FALSE]
FStr(s) == [t |-> "str", s |-> s, n |-> 0, b |-> FALSE]
FInt(n) == [t |-> "int", s |-> <<>>, n |-> n, b |-> FALSE]
FBool(b) == [t |-> "bool", s |-> <<>>, n |-> 0, b |-> b]

Field(name, value) == [name |-> name, value |-> value]

Digit(d) ==
    CASE d = 0 -> "0" [] d = 1 -> "1" [] d = 2 -> "2" [] d = 3 -> "3" [] d = 4 -> "4"
      [] d = 5 -> "5" [] d = 6 -> "6" [] d = 7 -> "7" [] d = 8 -> "8" [] OTHER -> "9"

\* str(n) of a natural number
RECURSIVE IntStr(_)
IntStr(n) == IF n < 10 THEN <<Digit(n)>> ELSE Append(IntStr(n \div 10), Digit(n % 10))

\* str(value)
PyStr(v) ==
    CASE v.t = "str" -> v.s
      [] v.t = "int" -> IntStr(v.n)
      [] v.t = "bool" -> IF v.b THEN <<"True">> ELSE <<"False">>
      [] OTHER -> <<"None">>

\* `"true" if value is True else str(value)`
FilterValue(v) == IF v.t = "bool" /\ v.b THEN <<"true">> ELSE PyStr(v)

\* `value == ""`
IsEmptyString(v) == v.t = "str" /\ v.s = <<>>

\* `value not in ("", None)`
NotEmptyOrNone(v) == ~IsEmptyString(v) /\ v.t # "none"

routing_fields ==
    {<<"organization">>, <<"workspace", "_", "name">>, <<"workspace", "_", "id">>,
     <<"run", "_", "id">>, <<"plan", "_", "id">>, <<"apply", "_", "id">>,
     <<"project", "_", "id">>}

\* model.model_dump(exclude_none=True): the fields in declaration order
ModelDump(model) == SelectSeq(model, LAMBDA f : f.value.t # "none")

\* f"{namespace}[{field_name}]"
Bracket(namespace, field_name) == namespace \o <<"[">> \o field_name \o <<"]">>

PageFieldName(name) == Replace(name, <<"page", "_">>, <<>>)

\* name.replace("filter_", "") with the underscores left as they are
FilterFieldNameUnderscored(name) == Replace(name, <<"filter", "_">>, <<>>)

\* name.replace("filter_", "").replace("_", "-")
FilterFieldName(name) == Replace(Replace(name, <<"filter", "_">>, <<>>), <<"_">>, <<"-">>)

\* "-".join(name.replace("filter_permissions_", "").split("_"))
PermissionsFieldName(name) ==
    Replace(Replace(name, <<"filter", "_", "permissions", "_">>, <<>>), <<"_">>, <<"-">>)

SetParam(params, k, v) == [x \in (DOMAIN params) \cup {k} |-> IF x = k THEN v ELSE params[x]]

\* one pass of the loop of query_params over the field f
WithField(params, f) ==
    IF f.name \in routing_fields THEN params
    ELSE IF StartsWithAt(f.name, 1, <<"page", "_">>)
         THEN SetParam(params, Bracket(<<"page">>, PageFieldName(f.name)), PyStr(f.value))
    ELSE IF StartsWithAt(f.name, 1, <<"filter", "_">>)
         THEN IF IsEmptyString(f.value) THEN params
              ELSE IF Contains(f.name, <<"_", "permissions", "_">>)
                   THEN SetParam(params,
                                 Bracket(<<"filter", "[", "permissions", "]">>,
                                         PermissionsFieldName(f.name)),
                                 FilterValue(f.value))
                   ELSE SetParam(params, Bracket(<<"filter">>, FilterFieldName(f.name)),
                                 FilterValue(f.value))
    ELSE IF StartsWithAt(f.name, 1, <<"search", "_">>)
         THEN IF NotEmptyOrNone(f.value)
              THEN SetParam(params,
                            Bracket(<<"search">>, Replace(f.name, <<"search", "_">>, <<>>)),
                            PyStr(f.value))
              ELSE params
    ELSE IF StartsWithAt(f.name, 1, <<"query", "_">>)
         THEN IF NotEmptyOrNone(f.value)
              THEN SetParam(params,
                            Bracket(<<"q">>, Replace(f.name, <<"query", "_">>, <<>>)),
                            PyStr(f.value))
              ELSE params
    ELSE IF f.name \in {<<"q">>, <<"search">>, <<"sort">>} /\ NotEmptyOrNone(f.value)
         THEN SetParam(params, f.name, PyStr(f.value))
    ELSE params

RECURSIVE QueryParamsLoop(_, _, _)
QueryParamsLoop(fields, i, params) ==
    IF i > Len(fields) THEN params
    ELSE QueryParamsLoop(fields, i + 1, WithField(params, fields[i]))

\* query_params(model)
QueryParams(model) == QueryParamsLoop(ModelDump(model), 1, <<>>)

\* the values of a field, by its type
PageValues == {FNone, FInt(2), FInt(20)}
TextValues == {FNone, FStr(<<>>), FStr(<<"applied">>)}
FlagValues == {FNone, FBool(TRUE), FBool(FALSE)}

\* the request classes given to query_params: the fields of each in
\* declaration order, each with the values it takes
RequestClasses ==
    {\* ProjectListRequest
     <<[name |-> <<"organization">>, values |-> {FStr(<<"acme">>)}],
       [name |-> <<"page", "_", "number">>, values |-> PageValues],
       [name |-> <<"q">>, values |-> TextValues],
       [name |-> <<"filter", "_", "names">>, values |-> TextValues],
       [name |-> <<"filter", "_", "permissions", "_", "update">>, values |-> FlagValues],
       [name |-> <<"filter", "_", "permissions", "_", "create", "_", "workspace">>,
        values |-> FlagValues],
       [name |-> <<"sort">>, values |-> {FNone, FStr(<<"name">>)}]>>,
     \* RunListInWorkspaceRequest
     <<[name |-> <<"workspace", "_", "id">>, values |-> {FStr(<<"ws", "-", "1">>)}],
       [name |-> <<"page", "_", "size">>, values |-> PageValues],
       [name |-> <<"filter", "_", "status">>, values |-> TextValues],
       [name |-> <<"filter", "_", "status", "_", "group">>, values |-> TextValues],
       [name |-> <<"filter", "_", "agent", "_", "pool", "_", "names">>,
        values |-> {FNone, FStr(<<"pool">>)}],
       [name |-> <<"search", "_", "user">>, values |-> TextValues]>>,
     \* OrganizationListRequest
     <<[name |-> <<"page", "_", "number">>, values |-> PageValues],
       [name |-> <<"page", "_", "size">>, values |-> PageValues],
       [name |-> <<"q">>, values |-> TextValues],
       [name |-> <<"query", "_", "email">>, values |-> TextValues],
       [name |-> <<"query", "_", "name">>, values |-> TextValues]>>,
     \* WorkspaceListRequest
     <<[name |-> <<"organization">>, values |-> {FStr(<<"acme">>)}],
       [name |-> <<"page", "_", "number">>, values |-> PageValues],
       [name |-> <<"page", "_", "size">>, values |-> PageValues],
       [name |-> <<"search">>, values |-> TextValues]>>,
     \* a request with a status filter, a query and a routing field
     <<[name |-> <<"organization">>, values |-> {FNone, FStr(<<"acme">>)}],
       [name |-> <<"page", "_", "number">>, values |-> PageValues],
       [name |-> <<"page", "_", "size">>, values |-> PageValues],
       [name |-> <<"filter", "_", "status">>, values |-> TextValues],
       [name |-> <<"q">>, values |-> {FNone, FStr(<<"foo">>)}]>>,
     \* the fields list_state_versions passes, and a flag filter of one level
     <<[name |-> <<"filter", "_", "workspace", "_", "name">>,
        values |-> {FNone, FStr(<<>>), FStr(<<"prod">>)}],
       [name |-> <<"filter", "_", "organization", "_", "name">>,
        values |-> {FNone, FStr(<<>>), FStr(<<"acme">>)}],
       [name |-> <<"filter", "_", "assessments", "_", "enabled">>, values |-> FlagValues],
       [name |-> <<"page", "_", "number">>, values |-> PageValues]>>}

\* the request objects of a class
ObjectsOf(class) ==
    {m \in [1..Len(class) -> UNION {class[i].values : i \in 1..Len(class)}] :
        \A i \in 1..Len(class) : m[i] \in class[i].values}

InitCodec ==
    /\ TransportIdle
    /\ FilterIdle
    /\ tool = ""
    /\ targs = [valid |-> TRUE, json_format |-> FALSE]
    /\ tpc = "idle"
    /\ kwargs = {}
    /\ tret = NoToolResult
    /\ qpc = "ready"
    /\ \E class \in RequestClasses :
          \E m \in ObjectsOf(class) :
              qmodel = [i \in 1..Len(class) |-> Field(class[i].name, m[i])]
    /\ qparams = <<>>
    /\ ppc = "idle"
    /\ preq = <<>>
    /\ payload = VNone
    /\ added = <<>>
    /\ data = NoData
    /\ ServerIdle

\* query_params(qmodel)
Query ==
    /\ qpc = "ready"
    /\ qparams' = QueryParams(qmodel)
    /\ qpc' = "done"
    /\ UNCHANGED qmodel
    /\ UNCHANGED outsideCodec

NextCodec == Query

SpecCodec == InitCodec /\ [][NextCodec]_vars

(***************************************************************************)
(* utils/payload.py: create_api_payload and add_relationship.              *)
(***************************************************************************)
MaxRelationships == 2

\* a field of a request object: its name, its alias, whether the caller set
\* it, and its value (the default when the caller did not set it)
SetField(name, alias, value) == [name |-> name, alias |-> alias, set |-> TRUE, value |-> value]
DefaultField(name, alias, value) == [name |-> name, alias |-> alias, set |-> FALSE, value |-> value]

\* exclude_fields or set()
ExcludedNames(exclude_fields) == IF exclude_fields.isNone THEN {} ELSE exclude_fields.s

\* the fields model_dump(by_alias=True, exclude=..., exclude_none=True) keeps
DumpedFields(fields, exclude) ==
    {i \in 1..Len(fields) : fields[i].name \notin exclude /\ fields[i].value.t # "none"}

\* model.model_dump(by_alias=True, exclude=exclude, exclude_none=True)
ModelDumpByAlias(fields, exclude) ==
    [a \in {fields[i].alias : i \in DumpedFields(fields, exclude)} |->
        fields[CHOOSE i \in DumpedFields(fields, exclude) : fields[i].alias = a].value]

NoRelationships == [present |-> FALSE, entries |-> <<>>]

\* create_api_payload(resource_type, model, exclude_fields)
CreateApiPayload(resource_type, fields, exclude_fields) ==
    [data |-> [type |-> resource_type,
               attributes |-> ModelDumpByAlias(fields, ExcludedNames(exclude_fields)),
               relationships |-> NoRelationships]]

Relationship(resource_type, resource_id) ==
    [data |-> [type |-> resource_type, id |-> resource_id]]

\* an add_relationship that starts from an empty mapping at every call
AddRelationshipAlone(p, relation_name, resource_type, resource_id) ==
    [p EXCEPT !.data.relationships =
        [present |-> TRUE,
         entries |-> SetParam(<<>>, relation_name, Relationship(resource_type, resource_id))]]

\* add_relationship(payload, relation_name, resource_type, resource_id)
AddRelationship(p, relation_name, resource_type, resource_id) ==
    [p EXCEPT !.data.relationships =
        [present |-> TRUE,
         entries |-> SetParam(p.data.relationships.entries, relation_name,
                              Relationship(resource_type, resource_id))]]

\* the fields of WorkspaceUpdateRequest as update_workspace builds it: what
\* the caller may pass for each, and the default the model declares
WorkspaceUpdateFields ==
    <<[name |-> "organization", alias |-> "organization", required |-> TRUE,
       default |-> FNone, values |-> {FStr(<<"acme">>)}],
      [name |-> "workspace_name", alias |-> "workspace_name", required |-> TRUE,
       default |-> FNone, values |-> {FStr(<<"prod">>)}],
      [name |-> "name", alias |-> "name", required |-> FALSE,
       default |-> FNone, values |-> {FNone, FStr(<<>>), FStr(<<"new">>)}],
      [name |-> "description", alias |-> "description", required |-> FALSE,
       default |-> FNone, values |-> {FStr(<<>>)}],
      [name |-> "auto_apply", alias |-> "auto-apply", required |-> FALSE,
       default |-> FBool(FALSE), values |-> {FBool(FALSE), FBool(TRUE)}],
      [name |-> "file_triggers_enabled", alias |-> "file-triggers-enabled", required |-> FALSE,
       default |-> FBool(TRUE), values |-> {FBool(FALSE)}],
      [name |-> "terraform_version", alias |-> "terraform-version", required |-> FALSE,
       default |-> FStr(<<"latest">>), values |-> {FStr(<<"1.5">>)}]>>

\* the fields of RunCreateRequest as create_run builds it
RunCreateFields ==
    <<[name |-> "workspace_id", alias |-> "workspace_id", required |-> TRUE,
       default |-> FNone, values |-> {FStr(<<"ws", "-", "1">>)}],
      [name |-> "message", alias |-> "message", required |-> FALSE,
       default |-> FNone, values |-> {FStr(<<>>), FStr(<<"go">>)}],
      [name |-> "refresh", alias |-> "refresh", required |-> FALSE,
       default |-> FBool(TRUE), values |-> {FBool(FALSE)}],
      [name |-> "is_destroy", alias |-> "is-destroy", required |-> FALSE,
       default |-> FBool(FALSE), values |-> {FBool(TRUE)}]>>

\* the fields of OrganizationCreateRequest as create_organization builds it
OrganizationCreateFields ==
    <<[name |-> "name", alias |-> "name", required |-> TRUE,
       default |-> FNone, values |-> {FStr(<<"acme">>)}],
      [name |-> "email", alias |-> "email", required |-> TRUE,
       default |-> FNone, values |-> {FStr(<<"a">>)}],
      [name |-> "session_timeout", alias |-> "session-timeout", required |-> FALSE,
       default |-> FInt(20160), values |-> {FNone, FInt(60)}],
      [name |-> "cost_estimation_enabled", alias |-> "cost-estimation-enabled",
       required |-> FALSE, default |-> FBool(FALSE), values |-> {FBool(FALSE), FBool(TRUE)}]>>

\* the calls of create_api_payload: resource type, request class, exclude_fields
PayloadCalls ==
    {[resource_type |-> "workspaces", class |-> WorkspaceUpdateFields,
      exclude_fields |-> SomeSet({"organization", "workspace_name"})],
     [resource_type |-> "runs", class |-> RunCreateFields,
      exclude_fields |-> SomeSet({"workspace_id", "variables"})],
     [resource_type |-> "organizations", class |-> OrganizationCreateFields,
      exclude_fields |-> NoneSet]}

\* what a caller does with a field: sets it to one of its values or, when it
\* is not required, leaves it to its default
FieldsOf(decl) ==
    {SetField(decl.name, decl.alias, v) : v \in decl.values}
        \cup (IF decl.required THEN {}
              ELSE {DefaultField(decl.name, decl.alias, decl.default)})

\* the request objects of a class, over its first n fields
RECURSIVE RequestsOf(_, _)
RequestsOf(class, n) ==
    IF n = 0 THEN {<<>>}
    ELSE {Append(r, f) : r \in RequestsOf(class, n - 1), f \in FieldsOf(class[n])}

\* the relationships a tool adds
RelationNames == {"workspace", "configuration-version", "project"}

RelationType(name) ==
    CASE name = "workspace" -> "workspaces"
      [] name = "configuration-version" -> "configuration-versions"
      [] OTHER -> "projects"

RelationIds == {"id-1", "id-2"}

InitPayload ==
    /\ TransportIdle
    /\ FilterIdle
    /\ tool = ""
    /\ targs = [valid |-> TRUE, json_format |-> FALSE]
    /\ tpc = "idle"
    /\ kwargs = {}
    /\ tret = NoToolResult
    /\ qpc = "idle"
    /\ qmodel = <<>>
    /\ qparams = <<>>
    /\ ppc = "ready"
    /\ \E call \in PayloadCalls :
          \E fields \in RequestsOf(call.class, Len(call.class)) :
              preq = [resource_type |-> call.resource_type,
                      exclude_fields |-> call.exclude_fields,
                      fields |-> fields]
    /\ payload = VNone
    /\ added = <<>>
    /\ data = NoData
    /\ ServerIdle

\* payload = create_api_payload(resource_type, request, exclude_fields)
CreatePayload ==
    /\ ppc = "ready"
    /\ payload' = CreateApiPayload(preq.resource_type, preq.fields, preq.exclude_fields)
    /\ ppc' = "built"
    /\ UNCHANGED <<preq, added>>
    /\ UNCHANGED outsidePayload

\* add_relationship(payload, relation_name, resource_type, resource_id)
AddRelationshipTo ==
    /\ ppc = "built"
    /\ Len(added) < MaxRelationships
    /\ \E relation_name \in RelationNames, resource_id \in RelationIds :
          /\ payload' = AddRelationship(payload, relation_name,
                                        RelationType(relation_name), resource_id)
          /\ added' = Append(added, [name |-> relation_name,
                                     type |-> RelationType(relation_name),
                                     id |-> resource_id])
    /\ UNCHANGED <<ppc, preq>>
    /\ UNCHANGED outsidePayload

NextPayload == CreatePayload \/ AddRelationshipTo

SpecPayload == InitPayload /\ [][NextPayload]_vars

(***************************************************************************)
(* The start of the server: server.py 29-151, utils/env.py 17-20.          *)
(***************************************************************************)
\* utils/env.py 17-20, without lower() and strip()
ShouldEnableDeleteToolsExact(v) ==
    GetEnvOrFalse(v) \in {<<"true">>, <<"1">>, <<"yes">>, <<"on">>}

\* utils/env.py 17-20
ShouldEnableDeleteTools(v) ==
    Strip(Lower(GetEnvOrFalse(v))) \in {<<"true">>, <<"1">>, <<"yes">>, <<"on">>}

\* mcp.tool(...)(function): enabled is "default" for mcp.tool() and names the
\* variable passed as enabled= otherwise
Registration(function, enabled) == [tool |-> function, enabled |-> enabled]

\* server.py 34-151, in order
Registrations ==
    <<Registration("get_account_details", "default"),
      Registration("list_workspaces", "default"),
      Registration("get_workspace_details", "default"),
      Registration("create_workspace", "default"),
      Registration("update_workspace", "default"),
      Registration("delete_workspace", "enable_delete_tools"),
      Registration("safe_delete_workspace", "enable_delete_tools"),
      Registration("lock_workspace", "default"),
      Registration("unlock_workspace", "default"),
      Registration("force_unlock_workspace", "default"),
      Registration("create_run", "default"),
      Registration("list_runs_in_workspace", "default"),
      Registration("list_runs_in_organization", "default"),
      Registration("get_run_details", "default"),
      Registration("apply_run", "default"),
      Registration("discard_run", "default"),
      Registration("cancel_run", "default"),
      Registration("force_cancel_run", "default"),
      Registration("force_execute_run", "default"),
      Registration("get_organization_details", "default"),
      Registration("get_organization_entitlements", "default"),
      Registration("list_organizations", "default"),
      Registration("create_organization", "default"),
      Registration("update_organization", "default"),
      Registration("delete_organization", "enable_delete_tools"),
      Registration("get_plan_details", "default"),
      Registration("get_plan_json_output", "default"),
      Registration("get_run_plan_json_output", "default"),
      Registration("get_plan_logs", "default"),
      Registration("get_apply_details", "default"),
      Registration("get_errored_state", "default"),
      Registration("get_apply_logs", "default"),
      Registration("create_project", "default"),
      Registration("update_project", "default"),
      Registration("list_projects", "default"),
      Registration("get_project_details", "default"),
      Registration("delete_project", "enable_delete_tools"),
      Registration("list_project_tag_bindings", "default"),
      Registration("add_update_project_tag_bindings", "default"),
      Registration("move_workspaces_to_project", "default"),
      Registration("get_cost_estimate_details", "default"),
      Registration("get_assessment_result_details", "default"),
      Registration("get_assessment_json_output", "default"),
      Registration("get_assessment_json_schema", "default"),
      Registration("get_assessment_log_output", "default"),
      Registration("list_state_versions", "default"),
      Registration("get_current_state_version", "default"),
      Registration("get_state_version", "default"),
      Registration("create_state_version", "default"),
      Registration("download_state_file", "default"),
      Registration("list_state_version_outputs", "default"),
      Registration("get_state_version_output", "default"),
      Registration("list_workspace_variables", "default"),
      Registration("create_workspace_variable", "default"),
      Registration("update_workspace_variable", "default"),
      Registration("delete_workspace_variable", "enable_delete_tools"),
      Registration("list_variable_sets", "default"),
      Registration("get_variable_set", "default"),
      Registration("create_variable_set", "default"),
      Registration("update_variable_set", "default"),
      Registration("delete_variable_set", "enable_delete_tools"),
      Registration("assign_variable_set_to_workspaces", "default"),
      Registration("unassign_variable_set_from_workspaces", "default"),
      Registration("assign_variable_set_to_projects", "default"),
      Registration("unassign_variable_set_from_projects", "default"),
      Registration("list_variables_in_variable_set", "default"),
      Registration("create_variable_in_variable_set", "default"),
      Registration("update_variable_in_variable_set", "default"),
      Registration("delete_variable_from_variable_set", "enable_delete_tools")>>

\* the enabled state of a tool registered with the argument enabled
ToolEnabled(enabled, flag) == IF enabled = "default" THEN TRUE ELSE flag

\* the values ENABLE_DELETE_TOOLS may hold
DeleteToolsValues ==
    {NoneStr} \cup
    {Str(v) : v \in {<<>>, <<" ">>, <<"false">>, <<"true">>, <<"TRUE">>, <<"True">>,
                     <<" ", "true", " ">>, <<"\t", "ON">>, <<"1">>, <<"1", " ">>,
                     <<"yes">>, <<"Yes">>, <<"on">>, <<"0">>, <<"no">>, <<"off">>,
                     <<"true", "1">>, <<"on", " ", "on">>, <<"enabled">>}}

InitServer ==
    /\ spc = "import"
    /\ deleteToolsEnv \in DeleteToolsValues
    /\ enable_delete_tools = FALSE
    /\ registered = <<>>
    /\ tables = <<>>
    /\ tasks = <<>>
    /\ lpc = "idle"
    /\ current_page = 0
    /\ requests = <<>>
    /\ all_workspaces = <<>>
    /\ listed = NoResult
    /\ server = NoPages
    /\ data = NoData
    /\ TransportIdle
    /\ FilterIdle
    /\ CallersIdle

\* server.py 32
ReadDeleteFlag ==
    /\ spc = "import"
    /\ enable_delete_tools' = ShouldEnableDeleteTools(deleteToolsEnv)
    /\ spc' = "register"
    /\ UNCHANGED <<deleteToolsEnv, registered>>
    /\ UNCHANGED <<apiVars, filterVars, detectVars, toolVars, codecVars, payloadVars>>
    /\ UNCHANGED <<requestVars, tableVars, pagerVars>>

\* server.py 35-151: the next mcp.tool(...)(...) statement
RegisterTool ==
    /\ spc = "register"
    /\ Len(registered) < Len(Registrations)
    /\ \E r \in {Registrations[Len(registered) + 1]} :
          registered' = Append(registered,
                               [tool |-> r.tool,
                                enabled |-> ToolEnabled(r.enabled, enable_delete_tools)])
    /\ UNCHANGED <<spc, deleteToolsEnv, enable_delete_tools>>
    /\ UNCHANGED <<apiVars, filterVars, detectVars, toolVars, codecVars, payloadVars>>
    /\ UNCHANGED <<requestVars, tableVars, pagerVars>>

\* server.py 154-161: main() runs the server
RunServer ==
    /\ spc = "register"
    /\ Len(registered) = Len(Registrations)
    /\ spc' = "serving"
    /\ UNCHANGED <<deleteToolsEnv, enable_delete_tools, registered>>
    /\ UNCHANGED <<apiVars, filterVars, detectVars, toolVars, codecVars, payloadVars>>
    /\ UNCHANGED <<requestVars, tableVars, pagerVars>>

NextServer == ReadDeleteFlag \/ RegisterTool \/ RunServer

SpecServer == InitServer /\ [][NextServer]_vars

(***************************************************************************)
(* Concurrent calls over the policy tables.  The tables are module-level   *)
(* objects every call reads; a call is a sequence of statements, and the   *)
(* statements of two calls may interleave.                                 *)
(***************************************************************************)
\* configs/filter_configs.py 7-187: the tables at process start
StartTables ==
    [FILTER_CONFIGS |-> FILTER_CONFIGS, PATH_PATTERNS |-> PATH_PATTERNS,
     DATA_TYPE_MAP |-> DATA_TYPE_MAP, RESOURCE_TYPE_MAP |-> RESOURCE_TYPE_MAP]

Tasks == {"a", "b"}

\* fields_to_remove is the policy's own always_remove set
SameSet(S) == [shared |-> TRUE, s |-> S]

\* filters.py 109: set(config.always_remove) is a new set
NewSet(S) == [shared |-> FALSE, s |-> S]

\* filters.py 42: RESOURCE_TYPE_MAP.get(resource_type, ResourceType.GENERIC)
NormalizeIn(T, arg) ==
    IF arg.v \in DOMAIN T.RESOURCE_TYPE_MAP THEN T.RESOURCE_TYPE_MAP[arg.v] ELSE "generic"

\* filters.py 106, 136: FILTER_CONFIGS.get(resource_type, FilterConfig())
ConfigIn(T, rtype) ==
    IF rtype \in DOMAIN T.FILTER_CONFIGS THEN T.FILTER_CONFIGS[rtype] ELSE DefaultFilterConfig

\* filters.py 221-242, for a body whose resource has the type tag
DetectIn(T, p, tag) ==
    LET M == {i \in 1..Len(T.PATH_PATTERNS) : Contains(p, T.PATH_PATTERNS[i].pattern)}
    IN  IF M # {} THEN T.PATH_PATTERNS[FirstOf(M)].type
        ELSE IF tag \in DOMAIN T.DATA_TYPE_MAP THEN T.DATA_TYPE_MAP[tag]
        ELSE IF tag \in ResourceTypes THEN tag
        ELSE "generic"

NoFields == [shared |-> FALSE, s |-> {}]
NoTaskResult == [attrs |-> {}, rels |-> {}, v |-> ""]

IdleTask ==
    [pc |-> "idle", call |-> "", rtype |-> OtherArg, op |-> "", path |-> <<>>,
     tag |-> "", fields |-> NoFields, result |-> NoTaskResult]

\* FilterRequest(custom_fields={...})
CustomFields == {"name"}

\* the resource given to the filter calls: every attribute its policy names,
\* a name and a timestamp; two relationships
TaskAttributes(rtype) == PolicyFields(rtype) \cup {"name", "created-at"}
TaskRelationships == {"organization", "workspace", "other"}

TaskTypeArgs ==
    {EnumArg(t) : t \in {"workspace", "plan", "state-version", "generic"}}
        \cup {StrArg("workspaces"), StrArg("unknown")}

TaskPaths ==
    {<<"organization", "s", "/", "acme", "/", "workspace", "s">>,
     <<"workspace", "s", "/", "ws", "-", "1", "/", "run", "s">>,
     <<"ping">>}

FilterCalls == {"filter_response", "filter_with_request"}
DetectCalls == {"detect_resource_type", "detect_operation_type", "should_filter_response"}

\* Python's str(bool)
BoolStr(b) == IF b THEN "True" ELSE "False"

InitTables ==
    /\ tables = StartTables
    /\ tasks = [t \in Tasks |-> IdleTask]
    /\ spc = "idle"
    /\ deleteToolsEnv = NoneStr
    /\ enable_delete_tools = FALSE
    /\ registered = <<>>
    /\ lpc = "idle"
    /\ current_page = 0
    /\ requests = <<>>
    /\ all_workspaces = <<>>
    /\ listed = NoResult
    /\ server = NoPages
    /\ data = NoData
    /\ TransportIdle
    /\ FilterIdle
    /\ CallersIdle

outsideTables ==
    <<apiVars, filterVars, detectVars, toolVars, codecVars, payloadVars,
      requestVars, serverVars, pagerVars>>

\* a task calls filter_response or filter_with_request: filters.py 18-46, 72-75
StartFilter(t) ==
    /\ tasks[t].pc \in {"idle", "done"}
    /\ \E call \in FilterCalls, arg \in TaskTypeArgs, op \in OperationTypes :
          tasks' = [tasks EXCEPT ![t] =
                      [IdleTask EXCEPT !.pc = "config", !.call = call,
                                       !.rtype = EnumArg(NormalizeIn(tables, arg)),
                                       !.op = op]]
    /\ UNCHANGED tables
    /\ UNCHANGED outsideTables

\* filters.py 106-109: config = FILTER_CONFIGS.get(...);
\* fields_to_remove = set(config.always_remove)
CopyFields(t) ==
    /\ tasks[t].pc = "config"
    /\ tasks' = [tasks EXCEPT ![t].pc = "update",
                              ![t].fields =
                                  NewSet(ConfigIn(tables, tasks[t].rtype.v).always_remove)]
    /\ UNCHANGED tables
    /\ UNCHANGED outsideTables

\* what update() adds for the operation
OperationFields(config, op) ==
    IF op = "read" THEN config.read_remove
    ELSE IF op = "list" THEN config.list_remove ELSE {}

\* filters.py 111-114: fields_to_remove.update(...), in place
UpdateFields(t) ==
    /\ tasks[t].pc = "update"
    /\ \E more \in {OperationFields(ConfigIn(tables, tasks[t].rtype.v), tasks[t].op)} :
          IF tasks[t].fields.shared /\ tasks[t].rtype.v \in DOMAIN tables.FILTER_CONFIGS
          THEN /\ tables' = [tables EXCEPT
                                !.FILTER_CONFIGS[tasks[t].rtype.v].always_remove = @ \cup more]
               /\ tasks' = [tasks EXCEPT ![t].pc = "pop"]
          ELSE /\ tables' = tables
               /\ tasks' = [tasks EXCEPT ![t].pc = "pop", ![t].fields.s = @ \cup more]
    /\ UNCHANGED outsideTables

\* the set fields_to_remove names now
FieldsNow(T, task) ==
    IF task.fields.shared /\ task.rtype.v \in DOMAIN T.FILTER_CONFIGS
    THEN T.FILTER_CONFIGS[task.rtype.v].always_remove
    ELSE task.fields.s

\* filters.py 136-143: the relationships a call keeps
KeptRelationships(config, op, rels) ==
    IF op = "read" /\ ~config.essential_relationships.isNone
          /\ config.essential_relationships.s # {}
    THEN rels \cap config.essential_relationships.s
    ELSE rels

\* filters.py 117-127, 130-150, 78-84: the fields are popped, the
\* relationships filtered, the custom fields of the request removed
PopFields(t) ==
    /\ tasks[t].pc = "pop"
    /\ tasks' = [tasks EXCEPT
                   ![t].pc = "done",
                   ![t].result =
                       [attrs |-> (TaskAttributes(tasks[t].rtype.v) \ FieldsNow(tables, tasks[t]))
                                     \ (IF tasks[t].call = "filter_with_request"
                                        THEN CustomFields ELSE {}),
                        rels |-> KeptRelationships(ConfigIn(tables, tasks[t].rtype.v),
                                                   tasks[t].op, TaskRelationships),
                        v |-> ""]]
    /\ UNCHANGED tables
    /\ UNCHANGED outsideTables

\* a task calls a detection function, which has no suspension point:
\* filters.py 207-255
DetectCall(t) ==
    /\ tasks[t].pc \in {"idle", "done"}
    /\ \E call \in DetectCalls, p \in TaskPaths, tag \in {"vars", "workspaces"} :
          tasks' = [tasks EXCEPT ![t] =
                      [IdleTask EXCEPT
                         !.pc = "done", !.call = call, !.path = p, !.tag = tag,
                         !.result =
                             [NoTaskResult EXCEPT
                                !.v = CASE call = "detect_resource_type" ->
                                             DetectIn(tables, p, tag)
                                        [] call = "detect_operation_type" ->
                                             DetectOperationType(p, "GET")
                                        [] OTHER -> BoolStr(ShouldFilterResponse(p, "GET"))]]]
    /\ UNCHANGED tables
    /\ UNCHANGED outsideTables

NextTables ==
    \E t \in Tasks :
        StartFilter(t) \/ CopyFields(t) \/ UpdateFields(t) \/ PopFields(t) \/ DetectCall(t)

SpecTables == InitTables /\ [][NextTables]_vars

(***************************************************************************)
(* list_workspaces(organization, all_pages=True): src/tools/workspaces.py   *)
(* 83-127, src/server.py 262-307.  The data of a page is named by the      *)
(* number of the page that was requested.                                  *)
(***************************************************************************)
\* the page numbers and page counts a response reports are at most MaxPages
MaxPages == 3

\* requests and all_workspaces record the first MaxRequests requests
MaxRequests == 4

\* list.append / list.extend, up to the recorded length
Recorded(q, x) == IF Len(q) < MaxRequests THEN Append(q, x) ELSE q

\* `return page_data  # Return error info`
PageError(page) == [kind |-> "error", page |-> page, data |-> <<>>]

\* `return all_workspaces`
AllWorkspaces(pages) == [kind |-> "workspaces", page |-> 0, data |-> pages]

\* workspaces.py 112-117: `current_page += 1` after `if current_page >= total_pages: break`
NextPage(current, total) == current + 1

InitPager ==
    /\ lpc = "request"
    /\ current_page = 1
    /\ requests = <<>>
    /\ all_workspaces = <<>>
    /\ listed = NoResult
    /\ server = NoPages
    /\ spc = "idle"
    /\ deleteToolsEnv = NoneStr
    /\ enable_delete_tools = FALSE
    /\ registered = <<>>
    /\ tables = <<>>
    /\ tasks = <<>>
    /\ data = NoData
    /\ TransportIdle
    /\ FilterIdle
    /\ CallersIdle

outsidePager ==
    <<apiVars, filterVars, detectVars, toolVars, codecVars, payloadVars,
      requestVars, serverVars, tableVars>>

\* workspaces.py 89-94: params["page[number]"] = str(current_page); the request
RequestPage ==
    /\ lpc = "request"
    /\ requests' = Recorded(requests, current_page)
    /\ lpc' = "awaiting"
    /\ UNCHANGED <<current_page, all_workspaces, listed, server>>
    /\ UNCHANGED outsidePager

\* workspaces.py 96-97: the request failed
PageFails ==
    /\ lpc = "awaiting"
    /\ listed' = PageError(current_page)
    /\ lpc' = "returned"
    /\ UNCHANGED <<current_page, requests, all_workspaces, server>>
    /\ UNCHANGED outsidePager

\* workspaces.py 99-127: a page arrives, reporting current-page current and
\* total-pages total (1 and 1 when it reports none)
PageArrives ==
    /\ lpc = "awaiting"
    /\ \E current \in 1..MaxPages, total \in 1..MaxPages :
          /\ all_workspaces' = Recorded(all_workspaces, current_page)
          /\ server' = [faithful |-> /\ server.faithful
                                     /\ current = current_page
                                     /\ server.total \in {0, total},
                        total |-> IF server.total = 0 THEN total ELSE server.total]
          /\ IF current >= total
             THEN /\ current_page' = current
                  /\ lpc' = "returned"
                  /\ listed' = AllWorkspaces(all_workspaces')
             ELSE /\ current_page' = NextPage(current, total)
                  /\ lpc' = "request"
                  /\ listed' = listed
    /\ UNCHANGED requests
    /\ UNCHANGED outsidePager

NextPager == RequestPage \/ PageFails \/ PageArrives

SpecPager == InitPager /\ [][NextPager]_vars

\* the event loop resumes the coroutine, and every request ends: with a
\* response, or with the error of a failure or a timeout
SpecPagerFair ==
    SpecPager /\ WF_vars(RequestPage) /\ WF_vars(PageFails \/ PageArrives)

(***************************************************************************)
(* Properties of the transport.                                            *)
(***************************************************************************)
TokenMissing ==
    /\ explicitToken.isNone \/ explicitToken.s = <<>>
    /\ defaultToken.isNone \/ defaultToken.s = <<>>

\* the token the Authorization header must carry
TokenInUse == IF explicitToken.isNone \/ explicitToken.s = <<>>
              THEN defaultToken.s ELSE explicitToken.s

\* C5: when the first response to api_request is a 301, 302, 307 or 308 with a
\* Location header, a follow-up GET to the Location URL is issued whose
\* Authorization header equals the first call's.
C5_RedirectFollowedWithSameAuth ==
    (/\ pc = "done"
     /\ fn = "api_request"
     /\ response.status \in {301, 302, 307, 308}
     /\ response.location)
    => /\ Len(calls) = 2
       /\ calls[2].method = "GET"
       /\ calls[2].url = "location"
       /\ calls[2].auth = calls[1].auth

\* C6: a redirect response without a Location header makes api_request return
\* exactly {"error": "Redirect received, but no Location header provided."},
\* with no further HTTP call.
C6_RedirectWithoutLocation ==
    (/\ pc = "done"
     /\ fn = "api_request"
     /\ response.status \in {301, 302, 307, 308}
     /\ ~response.location)
    => /\ result.ret = "mapping"
       /\ result.keys = {"error"}
       /\ result.error.fmt = "Redirect received, but no Location header provided."
       /\ Len(calls) = 1

\* C7: with no token available (explicit and default both None or empty) the
\* function returns the "Token is required" error mapping and issues no HTTP
\* call; every HTTP call issued carries Authorization: Bearer <token> with the
\* non-empty token in use.
C7_TokenPrecondition ==
    /\ TokenMissing => calls = <<>>
    /\ (pc = "done" /\ TokenMissing)
       => /\ result.ret = "mapping"
          /\ "error" \in result.keys
          /\ result.error.fmt =
               "Token is required. Please set the TFC_TOKEN environment variable."
    /\ \A i \in 1..Len(calls) :
          /\ calls[i].auth.scheme = "Bearer"
          /\ calls[i].auth.token # <<>>
          /\ calls[i].auth.token = TokenInUse

C7_Witness ==
    /\ pc = "done"
    /\ explicitToken = Str(<<>>)
    /\ defaultToken = NoneStr
    /\ result.error = TokenRequired
    /\ calls = <<>>

\* the token of an exception-path run (SpecRedact passes it explicitly)
CaughtException == pc = "done" /\ result.value = "error" /\ result.error.fmt = "{text}"

ErrorBody == SubSeq(result.error.text, Len(RequestErrorPrefix) + 1, Len(result.error.text))

\* C8 as stated: for every exception text and every token, the error message
\* returned does not contain the token.
C8_NoTokenInErrorMessage ==
    CaughtException => ~Contains(result.error.text, explicitToken.s)

\* a token that is no part of the texts the transport writes itself
PlainToken(t) ==
    /\ \A i \in 1..Len(t) : t[i] \notin {"[", "]", " "}
    /\ ~Contains(REDACTED, t)
    /\ ~Contains(RequestErrorPrefix, t)

\* C8 (amended): the exception text is placed after "Request error: " with each
\* leftmost non-overlapping occurrence of the token replaced by [REDACTED], a
\* text without the token being left as it is; the message does not contain the
\* token when the token has none of the characters "[", "]" and space and is
\* not itself a substring of "[REDACTED]" or of "Request error: ".
C8_TokenRedacted ==
    CaughtException =>
        /\ SubSeq(result.error.text, 1, Len(RequestErrorPrefix)) = RequestErrorPrefix
        /\ Contains(excText, explicitToken.s) => Contains(ErrorBody, REDACTED)
        /\ ~Contains(excText, explicitToken.s) => ErrorBody = excText
        /\ PlainToken(explicitToken.s) => ~Contains(result.error.text, explicitToken.s)

C8_Witness ==
    /\ CaughtException
    /\ explicitToken.s = <<"a">>
    /\ excText = <<"a", "D", "a">>
    /\ ErrorBody = REDACTED \o <<"D">> \o REDACTED

\* the outcomes of api_request that are failures
TransportRaised == pc = "done" /\ Len(calls) = 1 /\ response = NoResponse

FailureOutcome ==
    \/ TokenMissing
    \/ method \notin {"GET", "POST", "PATCH", "DELETE"}
    \/ TransportRaised
    \/ response.status # 0 /\ (response.status < 200 \/ response.status >= 300)
    \/ response.status # 0 /\ response.status # 204 /\ response.body = "not_json"

\* C9: api_request never raises; it returns a mapping, and on every failure
\* outcome (no token, unsupported method, transport exception, non-2xx status,
\* undecodable 2xx body) the mapping has an error key.
C9_NoExceptionEscapes ==
    fn = "api_request" =>
        /\ result.ret # "raised"
        /\ pc = "done" => /\ result.ret = "mapping"
                          /\ FailureOutcome => "error" \in result.keys

C9_Witness ==
    /\ pc = "done"
    /\ fn = "api_request"
    /\ response.status = 200
    /\ response.body = "not_json"
    /\ result.ret = "mapping"
    /\ "error" \in result.keys

\* C10: one invocation of api_request issues at most two HTTP calls: none when
\* the token is missing or the method unsupported, otherwise the first call
\* and at most one follow-up.
C10_BoundedRoundTrips ==
    fn = "api_request" =>
        /\ Len(calls) <= 2
        /\ pc = "done" =>
             IF TokenMissing \/ method \notin {"GET", "POST", "PATCH", "DELETE"}
             THEN Len(calls) = 0
             ELSE Len(calls) \in {1, 2}

C10_Witness ==
    /\ pc = "done"
    /\ fn = "api_request"
    /\ response.status = 307
    /\ response.location
    /\ Len(calls) = 1

(***************************************************************************)
(* Properties of the filter.                                               *)
(***************************************************************************)
\* the resources of an envelope: data itself, or the elements of data
Items(h, x) ==
    IF ~IsDict(h, x) THEN <<>>
    ELSE IF "data" \notin Keys(h, x.a) THEN <<>>
    ELSE IF IsList(h, Get(h, x.a, "data")) THEN h[Get(h, x.a, "data").a].l
    ELSE <<Get(h, x.a, "data")>>

\* the item has a mapping under key
HasMapping(h, item, key) ==
    /\ IsDict(h, item)
    /\ key \in Keys(h, item.a)
    /\ IsDict(h, Get(h, item.a, key))

\* the keys of the mapping the item has under key
MappingKeys(h, item, key) == Keys(h, Get(h, item.a, key).a)

Filtered == fpc = "filtered" /\ out.exc = "none"

\* C1: a call of filter_response leaves its argument, and every mapping and
\* list reachable from it, deep-equal to what it was before the call: the
\* envelope given to the first call, and the filtered envelope given to the
\* second.
C1_ArgumentUnchanged ==
    [][/\ Content(heap', env) = Content(heap, env)
       /\ fpc = "filtered" => Content(heap', out.ret) = Content(heap, out.ret)]_vars

\* C1: a list call has returned a copy whose content differs from the envelope
\* it was given: fields, relationship links and metadata were removed
C1_Witness ==
    /\ Filtered
    /\ opArg.v = "list"
    /\ out.ret # env
    /\ Content(heap, out.ret) # Content(heap, env)
    /\ \E i \in 1..Len(Items(heap, env)) : HasMapping(heap, Items(heap, env)[i], "relationships")

\* C2: filtering the filtered envelope again, with the same resource type and
\* operation, returns an envelope deep-equal to the filtered one.
C2_Idempotent ==
    fpc = "refiltered" =>
        /\ out2.exc = "none"
        /\ Content(heap, out2.ret) = Content(heap, out.ret)

\* C2: a second list pass has run over an envelope the first pass had trimmed
C2_Witness ==
    /\ fpc = "refiltered"
    /\ opArg.v = "list"
    /\ out2.ret # out.ret
    /\ Content(heap, out.ret) # Content(heap, env)
    /\ HasMapping(heap, out.ret, "meta")
    /\ "status-counts" \in MappingKeys(heap, out.ret, "meta")

\* C3: when the resource type is one that has a policy, given as the member or
\* as its string tag, no item of the output that has an attributes mapping
\* holds an attribute of the policy's always_remove set.
C3_AlwaysRemoveAbsent ==
    (Filtered /\ rtArg.v \in DOMAIN FILTER_CONFIGS) =>
        \A i \in 1..Len(Items(heap, out.ret)) :
            HasMapping(heap, Items(heap, out.ret)[i], "attributes") =>
                MappingKeys(heap, Items(heap, out.ret)[i], "attributes")
                    \cap FILTER_CONFIGS[rtArg.v].always_remove = {}

\* the content of a relationship entry but for its links
WithoutLinks(h, e) == {c \in Content(h, e) : c.p = <<>> \/ c.p[1] # "links"}

\* the relationships of the output item are those of the input item that the
\* operation keeps, each without links and otherwise as it was
RelationshipsKept(h, before, after, essential, op) ==
    /\ HasMapping(h, after, "relationships")
    /\ MappingKeys(h, after, "relationships")
         = IF op = "read"
           THEN MappingKeys(h, before, "relationships") \cap essential
           ELSE MappingKeys(h, before, "relationships")
    /\ \A k \in MappingKeys(h, after, "relationships") :
          /\ "links" \notin Keys(h, Get(h, Get(h, after.a, "relationships").a, k).a)
          /\ WithoutLinks(h, Get(h, Get(h, after.a, "relationships").a, k))
               = WithoutLinks(h, Get(h, Get(h, before.a, "relationships").a, k))

\* C4: when the policy of the resource type declares essential relationships
\* E, an item with relationships R comes out with relationships R \cap E after
\* a read and R after a list or a manage, every remaining entry without its
\* links and with its other sub-keys unchanged.
C4_EssentialOnlyOnRead ==
    (Filtered /\ ~ConfigOf(Intended(rtArg)).essential_relationships.isNone) =>
        \A i \in 1..Len(Items(heap, env)) :
            HasMapping(heap, Items(heap, env)[i], "relationships") =>
                RelationshipsKept(heap, Items(heap, env)[i], Items(heap, out.ret)[i],
                                  ConfigOf(Intended(rtArg)).essential_relationships.s,
                                  opArg.v)

(***************************************************************************)
(* Properties of the transport and the filter together.                    *)
(***************************************************************************)
ContentOf(r) == Content(r.h, r.ret)

\* filter_response(body, detect_resource_type(path, body),
\*                 detect_operation_type(path, method))
FilteredBody(p, m, h, x) ==
    ContentOf(FilterResponse(h, x, EnumArg(DetectResourceType(p, h, x).v),
                             EnumArg(DetectOperationType(p, m))))

\* C11: when api_request returns the decoded body of a successful response,
\* what it returns equals the filtered body if the method is GET, the path
\* holds no skip term and raw-response mode is off, and equals the body as
\* decoded otherwise.
C11_TransportFilters ==
    (pc = "done" /\ fn = "api_request" /\ result.value = "body") =>
        IF ShouldFilterResponse(path, method) /\ ~ShouldReturnRawResponse(enableRawResponse)
        THEN Content(heap, returned) = FilteredBody(path, method, heap, env)
        ELSE Content(heap, returned) = Content(heap, env)

\* the envelope has a meta that is no mapping, an item that is no mapping, or
\* an item with attributes whose relationships are no mapping
UnexpectedShape(h, x) ==
    \/ "meta" \in Keys(h, x.a) /\ ~IsDict(h, Get(h, x.a, "meta"))
    \/ \E i \in 1..Len(Items(h, x)) :
          \/ ~IsDict(h, Items(h, x)[i])
          \/ /\ HasMapping(h, Items(h, x)[i], "attributes")
             /\ "relationships" \in Keys(h, Items(h, x)[i].a)
             /\ ~HasMapping(h, Items(h, x)[i], "relationships")

\* C12: no call of filter_response ends in an exception, and for an envelope
\* of an unexpected shape the caller receives the envelope it passed.
C12_FailureFallsBack ==
    fpc = "filtered" =>
        /\ out.exc = "none"
        /\ (IsDict(heap, env) /\ UnexpectedShape(heap, env)) => out.ret = env

(***************************************************************************)
(* Properties of the tools.                                                *)
(***************************************************************************)
\* C13: a tool whose call of the transport requests accept_text returns the
\* mapping {content: <raw response body text>} and does not raise.
C13_TextMode ==
    (tpc = "done" /\ "accept_text" \in kwargs) =>
        /\ tret.ret = "mapping"
        /\ tret.value.keys = {"content"}

(***************************************************************************)
(* Properties of the transport: the no-content result.                     *)
(***************************************************************************)
\* C14: a response of status 204 makes the transport return exactly the
\* mapping {status: "success", status_code: 204}, with no body decoded.
C14_NoContent ==
    (pc = "done" /\ fn = "api_request" /\ response.status = 204) =>
        /\ result.ret = "mapping"
        /\ result.success
        /\ result.keys = {"status", "status_code"}

(***************************************************************************)
(* Properties of the parameter codec.                                      *)
(***************************************************************************)
\* the name is <word>_<x> with x not empty; FieldSuffix is x
HasFieldPrefix(name, word) == Len(name) >= 3 /\ name[1] = word /\ name[2] = "_"

FieldSuffix(name, k) == SubSeq(name, k + 1, Len(name))

Hyphenated(s) == [i \in 1..Len(s) |-> IF s[i] = "_" THEN "-" ELSE s[i]]

IsPermissionsFilter(name) ==
    HasFieldPrefix(name, "filter") /\ Len(name) >= 5 /\ name[3] = "permissions" /\ name[4] = "_"

NonEmptyField(f) == f.value.t # "none" /\ ~(f.value.t = "str" /\ f.value.s = <<>>)

\* the field is one the codec emits
Emitted(f) ==
    \/ HasFieldPrefix(f.name, "page") /\ f.value.t # "none"
    \/ HasFieldPrefix(f.name, "filter") /\ NonEmptyField(f)
    \/ HasFieldPrefix(f.name, "search") /\ NonEmptyField(f)
    \/ HasFieldPrefix(f.name, "query") /\ NonEmptyField(f)
    \/ f.name \in {<<"q">>, <<"search">>, <<"sort">>} /\ NonEmptyField(f)

\* the key of an emitted field; twoLevel says whether filter_permissions_<x>
\* has the key filter[permissions][<x>]
KeyOfField(name, twoLevel) ==
    IF HasFieldPrefix(name, "page")
    THEN <<"page", "[">> \o FieldSuffix(name, 2) \o <<"]">>
    ELSE IF twoLevel /\ IsPermissionsFilter(name)
    THEN <<"filter", "[", "permissions", "]", "[">> \o Hyphenated(FieldSuffix(name, 4)) \o <<"]">>
    ELSE IF HasFieldPrefix(name, "filter")
    THEN <<"filter", "[">> \o Hyphenated(FieldSuffix(name, 2)) \o <<"]">>
    ELSE IF HasFieldPrefix(name, "search")
    THEN <<"search", "[">> \o FieldSuffix(name, 2) \o <<"]">>
    ELSE IF HasFieldPrefix(name, "query")
    THEN <<"q", "[">> \o FieldSuffix(name, 2) \o <<"]">>
    ELSE name

DigitValue(d) == CHOOSE n \in 0..9 : Digit(n) = d

\* the number a decimal string denotes
RECURSIVE DecimalValue(_)
DecimalValue(s) ==
    IF Len(s) = 0 THEN 0
    ELSE 10 * DecimalValue(SubSeq(s, 1, Len(s) - 1)) + DigitValue(s[Len(s)])

\* params is the output for model: the keys are those of the emitted fields
\* and no other, a page value is the decimal string of the number, a string
\* value is the string, and no key is a routing field
CodecOutput(model, params, twoLevel) ==
    /\ DOMAIN params = {KeyOfField(model[i].name, twoLevel) :
                           i \in {j \in 1..Len(model) : Emitted(model[j])}}
    /\ \A i \in 1..Len(model) :
          Emitted(model[i]) /\ KeyOfField(model[i].name, twoLevel) \in DOMAIN params =>
              /\ model[i].value.t = "int" =>
                    /\ DecimalValue(params[KeyOfField(model[i].name, twoLevel)]) = model[i].value.n
                    /\ params[KeyOfField(model[i].name, twoLevel)][1] # "0"
              /\ model[i].value.t = "str" =>
                    params[KeyOfField(model[i].name, twoLevel)] = model[i].value.s
    /\ \A k \in DOMAIN params : k \notin routing_fields

ExampleRequest ==
    <<Field(<<"organization">>, FStr(<<"acme">>)),
      Field(<<"page", "_", "number">>, FInt(2)),
      Field(<<"page", "_", "size">>, FInt(20)),
      Field(<<"filter", "_", "status">>, FStr(<<"applied">>)),
      Field(<<"q">>, FStr(<<"foo">>))>>

ExampleParams ==
    (<<"page", "[", "number", "]">> :> <<"2">>)
        @@ (<<"page", "[", "size", "]">> :> <<"2", "0">>)
        @@ (<<"filter", "[", "status", "]">> :> <<"applied">>)
        @@ (<<"q">> :> <<"foo">>)

\* C15 (as stated): the keys of the output are page[<x>], filter[<x hyphenated>],
\* search[<x>], q[<x>] and q/search/sort for the non-empty fields of those
\* names and no other, routing fields never appear, and the example request
\* yields exactly the example output.
C15_CodecOutputOneLevel ==
    qpc = "done" =>
        /\ CodecOutput(qmodel, qparams, FALSE)
        /\ qmodel = ExampleRequest => qparams = ExampleParams

\* C15 (amended): the same, with a filter_permissions_<x> field emitted under
\* the key filter[permissions][<x hyphenated>].
C15_CodecOutput ==
    qpc = "done" =>
        /\ CodecOutput(qmodel, qparams, TRUE)
        /\ qmodel = ExampleRequest => qparams = ExampleParams

\* C15: a request with a routing field, a page field, an empty filter that is
\* dropped and a permissions filter that is emitted has been encoded.
C15_Witness ==
    /\ qpc = "done"
    /\ \E i \in 1..Len(qmodel) : qmodel[i].name \in routing_fields
    /\ \E i \in 1..Len(qmodel) :
          HasFieldPrefix(qmodel[i].name, "page") /\ qmodel[i].value.t = "int"
    /\ \E i \in 1..Len(qmodel) :
          HasFieldPrefix(qmodel[i].name, "filter") /\ qmodel[i].value = FStr(<<>>)
    /\ \E i \in 1..Len(qmodel) :
          /\ IsPermissionsFilter(qmodel[i].name)
          /\ qmodel[i].value.t = "bool"
          /\ KeyOfField(qmodel[i].name, TRUE) \in DOMAIN qparams

\* C16: a filter_ field (of one level or filter_permissions_<x>) whose value is
\* a boolean is emitted as a lowercase literal: True as "true", and never as
\* "True" or "False".
C16_BooleanLowercase ==
    qpc = "done" =>
        \A i \in 1..Len(qmodel) :
            (HasFieldPrefix(qmodel[i].name, "filter") /\ qmodel[i].value.t = "bool") =>
                /\ KeyOfField(qmodel[i].name, TRUE) \in DOMAIN qparams
                /\ qmodel[i].value.b => qparams[KeyOfField(qmodel[i].name, TRUE)] = <<"true">>
                /\ qparams[KeyOfField(qmodel[i].name, TRUE)] \notin {<<"True">>, <<"False">>}

\* the key of the nested filter of a resource: filter[<resource>][name]
NestedNameKey(resource) == <<"filter", "[", resource, "]", "[", "name", "]">>

\* C17: a non-empty filter_workspace_name is emitted as filter[workspace][name]
\* and a non-empty filter_organization_name as filter[organization][name];
\* filter[workspace-name] and filter[organization-name] are never emitted.
C17_NestedFilters ==
    qpc = "done" =>
        \A i \in 1..Len(qmodel) :
            \A resource \in {"workspace", "organization"} :
                (qmodel[i].name = <<"filter", "_", resource, "_", "name">>
                    /\ NonEmptyField(qmodel[i])) =>
                    /\ NestedNameKey(resource) \in DOMAIN qparams
                    /\ <<"filter", "[", resource, "-", "name", "]">> \notin DOMAIN qparams

(***************************************************************************)
(* Properties of the payload builder.                                      *)
(***************************************************************************)
\* the fields the caller set that are not excluded
CallerSet(fields, exclude) ==
    {i \in 1..Len(fields) : fields[i].set /\ fields[i].name \notin exclude}

\* C18: the payload is {data: {type, attributes}} and attributes holds exactly
\* the fields the caller set that are not in exclude_fields: a field never set
\* does not appear, whatever its default, and a field set to False, 0 or the
\* empty string does.
C18_PresenceGovernsInclusion ==
    ppc = "built" =>
        /\ payload.data.type = preq.resource_type
        /\ DOMAIN payload.data.attributes =
              {preq.fields[i].alias :
                  i \in CallerSet(preq.fields, ExcludedNames(preq.exclude_fields))}
        /\ \A i \in CallerSet(preq.fields, ExcludedNames(preq.exclude_fields)) :
              preq.fields[i].alias \in DOMAIN payload.data.attributes =>
                  payload.data.attributes[preq.fields[i].alias] = preq.fields[i].value

DistinctNames(calls_) ==
    \A i, j \in 1..Len(calls_) : calls_[i].name = calls_[j].name => i = j

\* C19: after add_relationship calls with pairwise distinct names the
\* relationships hold one entry {data: {type, id}} for every name added, with
\* the type and id of its own call, and no call changes the type or the
\* attributes of the payload.
C19_RelationshipsAccumulate ==
    /\ []((ppc = "built" /\ added # <<>> /\ DistinctNames(added)) =>
            /\ payload.data.relationships.present
            /\ DOMAIN payload.data.relationships.entries =
                  {added[i].name : i \in 1..Len(added)}
            /\ \A i \in 1..Len(added) :
                  payload.data.relationships.entries[added[i].name] =
                      [data |-> [type |-> added[i].type, id |-> added[i].id]])
    /\ [][ppc = "built" =>
            /\ payload'.data.type = payload.data.type
            /\ payload'.data.attributes = payload.data.attributes]_vars

\* C19: two relationships of distinct names have been added to a payload that
\* has attributes.
C19_Witness ==
    /\ ppc = "built"
    /\ Len(added) = 2
    /\ DistinctNames(added)
    /\ added[1].id # added[2].id
    /\ payload.data.attributes # <<>>
    /\ Cardinality(DOMAIN payload.data.relationships.entries) = 2

(***************************************************************************)
(* Properties of the detection.                                            *)
(***************************************************************************)
\* the place of a pattern in PATH_PATTERNS
PatternIndex(pattern) ==
    CHOOSE i \in 1..Len(PATH_PATTERNS) : PATH_PATTERNS[i].pattern = pattern

\* C20: when a pattern of PATH_PATTERNS occurs in the path, the type detected
\* is that of the first such entry in table order, whatever the body says;
\* and the path state-versions/<id>/outputs resolves to the
\* state-version-output type, the state-version-outputs pattern being checked
\* before the state-versions pattern.
C20_PathBeforeBody ==
    dpc = "detected" =>
        /\ \A i \in 1..Len(PATH_PATTERNS) :
              (/\ Contains(path, PATH_PATTERNS[i].pattern)
               /\ \A j \in 1..(i - 1) : ~Contains(path, PATH_PATTERNS[j].pattern)) =>
                  detected.resource = [exc |-> "none", v |-> PATH_PATTERNS[i].type]
        /\ path = <<"state-version", "s", "/", "sv", "-", "1", "/", "outputs">> =>
              /\ detected.resource = [exc |-> "none", v |-> "state-version-output"]
              /\ PatternIndex(<<"state-version", "-", "outputs">>)
                    < PatternIndex(<<"state-version", "s">>)

\* the paths of the nested collections the tools list, each with the type of
\* the resources the server returns for it
NestedCollections ==
    {[path |-> <<"organization", "s", "/", "acme", "/", "workspace", "s">>, type |-> "workspace"],
     [path |-> <<"organization", "s", "/", "acme", "/", "project", "s">>, type |-> "project"],
     [path |-> <<"organization", "s", "/", "acme", "/", "run", "s">>, type |-> "run"],
     [path |-> <<"workspace", "s", "/", "ws", "-", "1", "/", "run", "s">>, type |-> "run"],
     [path |-> <<"workspace", "s", "/", "ws", "-", "1", "/", "var", "s">>, type |-> "variable"],
     [path |-> <<"workspace", "s", "/", "ws", "-", "1", "/", "state-version", "s">>,
      type |-> "state-version"]}

\* C21: for the path of a nested collection under a parent the type detected
\* is the type of the nested collection, not that of the parent.
C21_NestedCollectionType ==
    dpc = "detected" =>
        \A c \in NestedCollections :
            path = c.path => detected.resource = [exc |-> "none", v |-> c.type]

\* the '/'-separated segments of a path
RECURSIVE Segments(_, _, _)
Segments(p, i, segment) ==
    IF i > Len(p) THEN <<segment>>
    ELSE IF p[i] = "/" THEN <<segment>> \o Segments(p, i + 1, <<>>)
    ELSE Segments(p, i + 1, Append(segment, p[i]))

SegmentHasIdPrefix(segment) ==
    /\ Len(segment) >= 2
    /\ segment[2] = "-"
    /\ segment[1] \in {"ws", "run", "org", "prj", "var"}

\* C22: the operation is manage when the method, whatever its case, is not
\* GET; for GET it is read exactly when some segment of the path starts with
\* one of ws-, run-, org-, prj-, var-, and list otherwise.
C22_OperationDetection ==
    dpc = "detected" =>
        detected.operation =
            IF method \notin {"GET", "get", "Get"} THEN "manage"
            ELSE IF \E k \in 1..Len(Segments(path, 1, <<>>)) :
                        SegmentHasIdPrefix(Segments(path, 1, <<>>)[k])
                 THEN "read"
                 ELSE "list"

\* C22: a GET in lower case has been detected as list on a path that holds a
\* prefix inside a segment but at the start of none.
C22_Witness ==
    /\ dpc = "detected"
    /\ method = "get"
    /\ HasResourceIdAnywhere(path)
    /\ detected.operation = "list"

\* C23: a tool returns the mapping it received from the transport as it is,
\* for success and for error results alike.
C23_ToolPassThrough ==
    (tpc = "done" /\ pc = "done" /\ "accept_text" \notin kwargs) =>
        tret = ToolReturns(result)


(***************************************************************************)
(* Properties of the filter: links and list metadata.                      *)
(***************************************************************************)
\* C25: for every envelope, resource type and operation, no resource of the
\* output of filter_response has a top-level links key, whether or not it has
\* an attributes mapping or a relationships mapping.
C25_ItemLinksRemoved ==
    Filtered =>
        \A i \in 1..Len(Items(heap, out.ret)) :
            IsDict(heap, Items(heap, out.ret)[i]) =>
                "links" \notin Keys(heap, Items(heap, out.ret)[i].a)


\* the two mappings agree on key: both lack it, or both hold the same content
SameUnder(h, before, after, key) ==
    /\ (key \in Keys(h, before.a)) = (key \in Keys(h, after.a))
    /\ key \in Keys(h, before.a) =>
          Content(h, Get(h, after.a, key)) = Content(h, Get(h, before.a, key))

PaginationKeys == {"current-page", "total-pages", "total-count"}

\* pagination holds the three keys, each with the value the input had for it
\* (null for a key the input lacked)
PaginationTrimmed(h, before, after) ==
    HasMapping(h, before, "pagination") =>
        /\ HasMapping(h, after, "pagination")
        /\ MappingKeys(h, after, "pagination") = PaginationKeys
        /\ \A k \in PaginationKeys :
              IF k \in MappingKeys(h, before, "pagination")
              THEN SameUnder(h, Get(h, before.a, "pagination"), Get(h, after.a, "pagination"), k)
              ELSE Get(h, Get(h, after.a, "pagination").a, k) = VNone

\* status-counts is {total: the input's total}, or absent when it had none
StatusCountsTrimmed(h, before, after) ==
    HasMapping(h, before, "status-counts") =>
        IF "total" \in MappingKeys(h, before, "status-counts")
        THEN /\ HasMapping(h, after, "status-counts")
             /\ MappingKeys(h, after, "status-counts") = {"total"}
             /\ SameUnder(h, Get(h, before.a, "status-counts"),
                          Get(h, after.a, "status-counts"), "total")
        ELSE "status-counts" \notin Keys(h, after.a)

\* the meta of a list: pagination and status-counts trimmed, the rest as it was
MetaTrimmed(h, before, after) ==
    /\ IsDict(h, after)
    /\ PaginationTrimmed(h, before, after)
    /\ StatusCountsTrimmed(h, before, after)
    /\ \A k \in (Keys(h, before.a) \cup Keys(h, after.a)) :
          (k \notin {"pagination", "status-counts"} \/ ~HasMapping(h, before, k)) =>
              SameUnder(h, before, after, k)

NavigationLinks == {"next", "prev", "first", "last"}

\* the top-level links of a list: the navigation links the input had
LinksTrimmed(h, before, after) ==
    /\ IsDict(h, after)
    /\ Keys(h, after.a) = Keys(h, before.a) \cap NavigationLinks
    /\ \A k \in Keys(h, after.a) : SameUnder(h, before, after, k)

\* what the claim says of the output after of the input before under op
ListMetadata(h, before, after, op) ==
    IF op = "list"
    THEN /\ ("meta" \in Keys(h, before.a)) = ("meta" \in Keys(h, after.a))
         /\ ("links" \in Keys(h, before.a)) = ("links" \in Keys(h, after.a))
         /\ HasMapping(h, before, "meta") =>
               MetaTrimmed(h, Get(h, before.a, "meta"), Get(h, after.a, "meta"))
         /\ HasMapping(h, before, "links") =>
               LinksTrimmed(h, Get(h, before.a, "links"), Get(h, after.a, "links"))
    ELSE SameUnder(h, before, after, "meta") /\ SameUnder(h, before, after, "links")

\* C26: after a list the output's meta.pagination has exactly the keys
\* current-page, total-pages and total-count with the input's values,
\* meta.status-counts is {total} or absent, the top-level links are the
\* navigation links the input had and every other meta key is unchanged;
\* after a read or a manage meta and links equal the input's. Stated of every
\* envelope that is a mapping.
C26_ListMetadataOfAnyEnvelope ==
    (Filtered /\ IsDict(heap, env)) => ListMetadata(heap, env, out.ret, opArg.v)

\* C26: the same, of the envelopes that have a data key.
C26_ListMetadata ==
    (Filtered /\ IsDict(heap, env) /\ "data" \in Keys(heap, env.a)) =>
        ListMetadata(heap, env, out.ret, opArg.v)


\* C26: a list call has trimmed an envelope with data whose pagination held
\* more than the three keys, whose status-counts held more than the total
\* and whose links held more than the navigation links
C26_Witness ==
    /\ Filtered
    /\ opArg.v = "list"
    /\ IsDict(heap, env)
    /\ "data" \in Keys(heap, env.a)
    /\ HasMapping(heap, env, "meta")
    /\ HasMapping(heap, Get(heap, env.a, "meta"), "pagination")
    /\ "page-size" \in MappingKeys(heap, Get(heap, env.a, "meta"), "pagination")
    /\ "page-size" \notin MappingKeys(heap, Get(heap, out.ret.a, "meta"), "pagination")
    /\ "applied" \in MappingKeys(heap, Get(heap, env.a, "meta"), "status-counts")
    /\ MappingKeys(heap, Get(heap, out.ret.a, "meta"), "status-counts") = {"total"}
    /\ "self" \in MappingKeys(heap, env, "links")
    /\ MappingKeys(heap, out.ret, "links") = NavigationLinks


(***************************************************************************)
(* Properties of the filter policies.                                      *)
(***************************************************************************)
\* the attributes of audit and compliance trails: permissions, timestamps,
\* status history, actor identity
AuditFields ==
    {"permissions", "created-at", "updated-at", "status-timestamps", "status",
     "created-by", "updated-by", "confirmed-by", "username", "email"}

\* the output item holds every audit attribute the input item held, unchanged
AuditAttributesKept(h, before, after) ==
    HasMapping(h, before, "attributes") =>
        /\ HasMapping(h, after, "attributes")
        /\ \A k \in MappingKeys(h, before, "attributes") \cap AuditFields :
              SameUnder(h, Get(h, before.a, "attributes"), Get(h, after.a, "attributes"), k)

\* C28: no always_remove, read_remove or list_remove set of a policy of
\* FILTER_CONFIGS holds a field of the audit and compliance trails, and no
\* filter_response call, for any type and operation, removes such an
\* attribute from an item.
C28_AuditConservative ==
    /\ \A t \in DOMAIN FILTER_CONFIGS :
          /\ FILTER_CONFIGS[t].always_remove \cap AuditFields = {}
          /\ FILTER_CONFIGS[t].read_remove \cap AuditFields = {}
          /\ FILTER_CONFIGS[t].list_remove \cap AuditFields = {}
    /\ Filtered =>
          \A i \in 1..Len(Items(heap, env)) :
              AuditAttributesKept(heap, Items(heap, env)[i], Items(heap, out.ret)[i])

\* C28: a list call has removed attributes its policy names from an item that
\* also held a timestamp, and the timestamp is still there
C28_Witness ==
    /\ Filtered
    /\ opArg.v = "list"
    /\ \E i \in 1..Len(Items(heap, env)) :
          /\ HasMapping(heap, Items(heap, env)[i], "attributes")
          /\ "created-at" \in MappingKeys(heap, Items(heap, env)[i], "attributes")
          /\ "created-at" \in MappingKeys(heap, Items(heap, out.ret)[i], "attributes")
          /\ MappingKeys(heap, Items(heap, env)[i], "attributes")
                \cap ConfigOf(Intended(rtArg)).list_remove # {}
          /\ MappingKeys(heap, Items(heap, out.ret)[i], "attributes")
                \cap ConfigOf(Intended(rtArg)).list_remove = {}


(***************************************************************************)
(* Properties of the transport: the request body.                          *)
(***************************************************************************)
\* C29: whenever a caller passes a non-empty data payload to the transport,
\* with POST, PATCH or DELETE, that payload is the JSON body of the HTTP call
\* issued: the relationship list of an unassign call goes out with its DELETE.
C29_BodyReachesServer ==
    (data.content # "empty" /\ method \in {"POST", "PATCH", "DELETE"}) =>
        \A i \in 1..Len(calls) :
            /\ calls[i].json
            /\ JsonArgument(fn, calls[i].method, data) = data.content


(***************************************************************************)
(* Properties of the server start.                                         *)
(***************************************************************************)
DestructiveTools ==
    {"delete_workspace", "safe_delete_workspace", "delete_organization", "delete_project",
     "delete_workspace_variable", "delete_variable_set", "delete_variable_from_variable_set"}

\* the values of ENABLE_DELETE_TOOLS that, lowercased and trimmed, are one of
\* true, 1, yes, on
EnablingValues ==
    {Str(v) : v \in {<<"true">>, <<"TRUE">>, <<"True">>, <<" ", "true", " ">>,
                     <<"\t", "ON">>, <<"1">>, <<"1", " ">>, <<"yes">>, <<"Yes">>, <<"on">>}}

RegisteredTools == {registered[i].tool : i \in 1..Len(registered)}

\* C24: each destructive tool is registered enabled exactly when
\* ENABLE_DELETE_TOOLS, lowercased and trimmed, is one of true, 1, yes, on, and
\* disabled when the variable is unset or has another value; every other tool
\* is registered enabled whatever the flag; the running server has all seven
\* destructive tools registered.
C24_DestructiveToolGating ==
    /\ \A i \in 1..Len(registered) :
          registered[i].enabled =
              IF registered[i].tool \in DestructiveTools
              THEN deleteToolsEnv \in EnablingValues
              ELSE TRUE
    /\ spc = "serving" => DestructiveTools \subseteq RegisteredTools

\* C24: the server runs with ENABLE_DELETE_TOOLS set to " true ", the seven
\* destructive tools enabled among the tools registered
C24_Witness ==
    /\ spc = "serving"
    /\ deleteToolsEnv = Str(<<" ", "true", " ">>)
    /\ Cardinality({i \in 1..Len(registered) :
                      registered[i].tool \in DestructiveTools /\ registered[i].enabled}) = 7
    /\ Cardinality(RegisteredTools) > 7


(***************************************************************************)
(* Properties of the policy tables under concurrent calls.                 *)
(***************************************************************************)
\* what a call returns when it runs alone, from its arguments
ResultAlone(task) ==
    IF task.call \in FilterCalls
    THEN [attrs |-> (TaskAttributes(task.rtype.v)
                        \ FieldsToRemove(ConfigOf(task.rtype.v), task.op))
                        \ (IF task.call = "filter_with_request" THEN CustomFields ELSE {}),
          rels |-> IF task.op = "read"
                      /\ ConfigOf(task.rtype.v).essential_relationships.s # {}
                   THEN TaskRelationships \cap ConfigOf(task.rtype.v).essential_relationships.s
                   ELSE TaskRelationships,
          v |-> ""]
    ELSE [attrs |-> {}, rels |-> {},
          v |-> CASE task.call = "detect_resource_type" ->
                       IF MatchingPatterns(task.path) # {}
                       THEN PATH_PATTERNS[FirstOf(MatchingPatterns(task.path))].type
                       ELSE ResourceTypeOfTag(VStr(task.tag)).v
                  [] task.call = "detect_operation_type" -> DetectOperationType(task.path, "GET")
                  [] OTHER -> BoolStr(ShouldFilterResponse(task.path, "GET"))]

\* C27: after any sequence and under any interleaving of calls of
\* filter_response, filter_with_request, detect_resource_type,
\* detect_operation_type and should_filter_response, FILTER_CONFIGS with the
\* sets of each policy, PATH_PATTERNS, DATA_TYPE_MAP and RESOURCE_TYPE_MAP
\* equal their values at process start, and the result of every call is the
\* one its arguments alone determine.
C27_TablesReadOnly ==
    /\ tables = StartTables
    /\ \A t \in Tasks : tasks[t].pc = "done" => tasks[t].result = ResultAlone(tasks[t])

\* C27: a read of a plan has completed while a list of a plan was between
\* building its set of fields and extending it
C27_Witness ==
    /\ tasks["a"].pc = "update"
    /\ tasks["a"].call = "filter_response"
    /\ tasks["a"].rtype.v = "plan"
    /\ tasks["a"].op = "list"
    /\ tasks["b"].pc = "done"
    /\ tasks["b"].call = "filter_with_request"
    /\ tasks["b"].rtype.v = "plan"
    /\ tasks["b"].op = "read"
    /\ "resource-drift" \notin tasks["b"].result.attrs
    /\ "execution-details" \in tasks["b"].result.attrs


(***************************************************************************)
(* Properties of the pagination loop.                                      *)
(***************************************************************************)
\* the pages 1..n, in order
FirstPages(n) == [i \in 1..n |-> i]

\* what list_workspaces returned: the error of the failed request, which was
\* the last one made; or, when every response reported the page requested
\* and the same total N, the data of the pages 1..N after exactly those N
\* requests
ReturnedPages ==
    lpc = "returned" =>
        IF listed.kind = "error"
        THEN Len(requests) < MaxRequests => listed.page = requests[Len(requests)]
        ELSE server.faithful =>
                /\ requests = FirstPages(server.total)
                /\ listed.data = FirstPages(server.total)

\* C30: list_workspaces with all_pages=True eventually returns; it returns
\* the error of the first failed page request; otherwise, when every response
\* reports the page requested and the same total N, it makes exactly N
\* requests, for the pages 1..N in order, and returns their data in page
\* order.
C30_LoopTerminates == <>(lpc = "returned") /\ []ReturnedPages

====
